---- MODULE Spec2Model ----
(***************************************************************************)
(* A state-machine model of bevy_panorbit_camera: the systems that the     *)
(* plugin chains every frame (active_viewport_data, mouse_key_tracker,     *)
(* touch_tracker, pan_orbit_camera) and the pure helpers they call.        *)
(*                                                                         *)
(* Numbers.  The program computes in f32.  The model computes on a fixed   *)
(* grid: an f32 quantity q (an angle, a length, a sensitivity, a scroll    *)
(* amount) is the integer q * One, rounded to the nearest grid point with  *)
(* ties to even, which is what IEEE arithmetic does at the precision of    *)
(* the result.  Screen quantities (mouse motion, touch positions, window   *)
(* and viewport sizes) are whole pixels.  TLC integers are 32 bits wide,   *)
(* so One and the input sets are chosen to keep every product below 2^31.  *)
(***************************************************************************)
EXTENDS Integers, Naturals, Sequences, FiniteSets, TLC

\* The grid point of 1.0.
One == 4000
\* util.rs: const EPSILON: f32 = 0.001
EPSILON == One \div 1000
\* std::f32::consts::PI and TAU on the grid (TAU = 2 * PI exactly, as in f32).
PI == 12566
TAU == 2 * PI
\* The floor of the zoom value: .max(0.05) in apply_zoom_limits.
ZoomFloor == One \div 20

\* Option<T>: None, or Some(v) as a one-element sequence.
None == <<>>
Some(v) == <<v>>
IsSome(o) == o # None
Unwrap(o) == o[1]

\* Body applied to the value of v: v is evaluated once, however often Body uses it.
With(v, Body(_)) == CHOOSE r \in { Body(x) : x \in {v} } : TRUE

Abs(x) == IF x < 0 THEN -x ELSE x
Min(a, b) == IF a <= b THEN a ELSE b
Max(a, b) == IF a >= b THEN a ELSE b

\* The values of f32 that are not finite.  Infinity stands for f32::INFINITY: a grid
\* value beyond every finite value that the inputs of the specifications produce.
\* Every value beyond it in magnitude stands for NaN.
Infinity == 50 * One
NaN == 2 * Infinity
IsFinite(x) == Abs(x) < Infinity
IsNaN(x) == Abs(x) > Infinity
\* a + b in f32: a NaN gives NaN, infinities of opposite sign give NaN, an infinity
\* absorbs a finite value.
FAdd(a, b) ==
    IF IsNaN(a) \/ IsNaN(b) THEN NaN
    ELSE IF ~IsFinite(a) THEN (IF IsFinite(b) \/ a = b THEN a ELSE NaN)
    ELSE IF ~IsFinite(b) THEN b
    ELSE a + b
\* c * x in f32 for an x that is not finite: the sign is the product of the signs,
\* and 0.0 times an infinity is NaN.
FMulNonFinite(c, x) ==
    IF IsNaN(c) \/ IsNaN(x) \/ c = 0 THEN NaN
    ELSE IF (c > 0) = (x > 0) THEN Infinity ELSE -Infinity

\* n / d for d > 0, rounded to the nearest integer, ties to even.
RoundDiv(n, d) ==
    With(n, LAMBDA m :
      LET q == m \div d
          r == m % d
      IN  IF 2 * r < d THEN q
          ELSE IF 2 * r > d THEN q + 1
          ELSE IF q % 2 = 0 THEN q ELSE q + 1)

\* The product and the quotient of two grid quantities.
Mul(a, b) == RoundDiv(a * b, One)
Div(a, b) == IF b > 0 THEN RoundDiv(a * One, b) ELSE RoundDiv((-a) * One, -b)

\* The integer square root: the largest r with r * r <= n.
RECURSIVE SqrtSearch(_, _, _)
SqrtSearch(n, lo, hi) ==
    IF lo >= hi THEN lo
    ELSE With((lo + hi + 1) \div 2, LAMBDA mid :
           IF mid * mid <= n THEN With(hi, LAMBDA top : SqrtSearch(n, mid, top))
           ELSE With(lo, LAMBDA bottom : SqrtSearch(n, bottom, mid - 1)))
ISqrt(n) == With(n, LAMBDA m : SqrtSearch(m, 0, 46340))

\* Vec2 and Vec3 are tuples of components.
Vec2Zero == <<0, 0>>
Vec3Zero == <<0, 0, 0>>
Vec3Add(a, b) == <<a[1] + b[1], a[2] + b[2], a[3] + b[3]>>
Vec3Sub(a, b) == <<a[1] - b[1], a[2] - b[2], a[3] - b[3]>>
\* Vec3 + Vec3 where a component may not be finite.
Vec3FAdd(a, b) == <<FAdd(a[1], b[1]), FAdd(a[2], b[2]), FAdd(a[3], b[3])>>
Vec3Scale(a, s) == <<Mul(a[1], s), Mul(a[2], s), Mul(a[3], s)>>
Vec3Dot(a, b) == Mul(a[1], b[1]) + Mul(a[2], b[2]) + Mul(a[3], b[3])
Vec3Cross(a, b) ==
    << Mul(a[2], b[3]) - Mul(a[3], b[2]),
       Mul(a[3], b[1]) - Mul(a[1], b[3]),
       Mul(a[1], b[2]) - Mul(a[2], b[1]) >>
\* Vec3::length(): the square root of the sum of the squares.  A long vector is
\* measured at a coarser precision (as f32 does), which keeps the squares in range.
Vec3Length(a) ==
    With(a, LAMBDA v :
    With(Max(Abs(v[1]), Max(Abs(v[2]), Abs(v[3]))) \div 20000 + 1, LAMBDA k :
      k * ISqrt((v[1] \div k) * (v[1] \div k) + (v[2] \div k) * (v[2] \div k)
                + (v[3] \div k) * (v[3] \div k))))
\* Vec2::length_squared() > 0.0 for whole-pixel vectors.
Vec2NonZero(v) == v[1] # 0 \/ v[2] # 0

\* sin and cos on the grid.  An angle is reduced to [0, TAU); on [0, PI] the sine
\* is Bhaskara's rational approximation 16 x (PI - x) / (5 PI^2 - 4 x (PI - x)),
\* exact at 0, PI/2 and PI, and sin(x + PI) = -sin(x).
SinHalf(x) ==
    With(RoundDiv(x * (PI - x), One), LAMBDA p :
      RoundDiv(16 * p * One, 5 * RoundDiv(PI * PI, One) - 4 * p))
Sin(a) ==
    With(a % TAU, LAMBDA x : IF x <= PI THEN SinHalf(x) ELSE -SinHalf(x - PI))
Cos(a) == Sin(a + PI \div 2)

\* acos on the grid: exact at the ends (acos(1) = 0, acos(-1) = PI), otherwise the
\* angle in [0, PI] whose cosine is nearest to c (bisection on the decreasing cosine);
\* asin(s) = PI/2 - acos(s).
RECURSIVE ACosSearch(_, _, _)
ACosSearch(c, lo, hi) ==
    IF hi - lo <= 1
    THEN IF Abs(Cos(lo) - c) <= Abs(Cos(hi) - c) THEN lo ELSE hi
    ELSE With((lo + hi) \div 2, LAMBDA mid :
           IF Cos(mid) >= c THEN With(hi, LAMBDA top : ACosSearch(c, mid, top))
           ELSE With(lo, LAMBDA bottom : ACosSearch(c, bottom, mid)))
ACos(c) ==
    With(c, LAMBDA cosine :
      IF cosine >= One THEN 0
      ELSE IF cosine <= -One THEN PI
      ELSE ACosSearch(cosine, 0, PI))
ASin(s) == PI \div 2 - ACos(s)

(***************************************************************************)
(* traits.rs and util.rs: the pure helpers.                                *)
(***************************************************************************)

\* A faulty variant of the clamp, which takes the bounds in the wrong order.
clamp_optional_swapped(value, min, max) ==
    LET v1 == IF IsSome(max) THEN Max(value, Unwrap(max)) ELSE value
    IN  IF IsSome(min) THEN Min(v1, Unwrap(min)) ELSE v1

\* OptionalClamp::clamp_optional for f32: the lower bound first, then the upper.
clamp_optional(value, min, max) ==
    LET v1 == IF IsSome(min) THEN Max(value, Unwrap(min)) ELSE value
    IN  IF IsSome(max) THEN Min(v1, Unwrap(max)) ELSE v1

\* f32::clamp(lo, hi).
clamp(value, lo, hi) == IF value < lo THEN lo ELSE IF value > hi THEN hi ELSE value

approx_equal(a, b) == Abs(a - b) < EPSILON

\* Lerp::lerp: from + (to - from) * t.
lerp(from, to, t) == from + Mul(to - from, t)
Vec3Lerp(from, to, t) ==
    <<lerp(from[1], to[1], t), lerp(from[2], to[2], t), lerp(from[3], to[3], t)>>

lerp_and_snap_f32(from, to, smoothness) ==
    LET t == One - smoothness
    IN  With(lerp(from, to, t), LAMBDA new_value :
          IF smoothness < One /\ approx_equal(new_value, to) THEN to ELSE new_value)

\* Only the x component is snapped: new_value.x = to.x.
lerp_and_snap_vec3(from, to, smoothness) ==
    LET t == One - smoothness
    IN  With(Vec3Lerp(from, to, t), LAMBDA new_value :
          IF smoothness < One /\ approx_equal(Vec3Length(Vec3Sub(new_value, to)), 0)
          THEN <<to[1], new_value[2], new_value[3]>>
          ELSE new_value)

\* A faulty variant of the conversion, which raises every radius below the floor to
\* the floor, not the zero radius alone.
calculate_from_translation_and_focus_floored(translation, focus) ==
    With(Vec3Sub(translation, focus), LAMBDA comp_vec :
    With(Vec3Length(comp_vec), LAMBDA len :
      LET radius == IF len < ZoomFloor THEN ZoomFloor ELSE len
          alpha == IF comp_vec[1] = 0 /\ comp_vec[3] >= 0 THEN 0
                   ELSE ACos(Div(comp_vec[3],
                                 ISqrt(comp_vec[1] * comp_vec[1]
                                       + comp_vec[3] * comp_vec[3])))
          beta == ASin(Div(comp_vec[2], radius))
      IN  <<alpha, beta, radius>>))

\* Returns <<alpha, beta, radius>>.
calculate_from_translation_and_focus(translation, focus) ==
    With(Vec3Sub(translation, focus), LAMBDA comp_vec :
    With(Vec3Length(comp_vec), LAMBDA len :
      LET radius == IF len = 0 THEN ZoomFloor ELSE len
          alpha == IF comp_vec[1] = 0 /\ comp_vec[3] >= 0 THEN 0
                   ELSE ACos(Div(comp_vec[3],
                                 ISqrt(comp_vec[1] * comp_vec[1]
                                       + comp_vec[3] * comp_vec[3])))
          beta == ASin(Div(comp_vec[2], radius))
      IN  <<alpha, beta, radius>>))

(***************************************************************************)
(* Rotations.  A rotation is kept in the form the program builds it in:    *)
(* the roll rotations applied to the base transform so far (each an axis   *)
(* and an angle, the oldest first), followed by the orbit rotation         *)
(* from_rotation_y(alpha) * from_rotation_x(-beta).                         *)
(***************************************************************************)

QuatIdentity == [base |-> <<>>, alpha |-> 0, beta |-> 0]
TransformIdentity == [rotation |-> QuatIdentity, translation |-> Vec3Zero]

\* Quat::from_rotation_x(-beta) * v, Quat::from_rotation_y(alpha) * v and
\* Quat::from_axis_angle(k, angle) * v.
RotXNeg(beta, v) ==
    With(<<Cos(beta), Sin(beta), v>>, LAMBDA r :
      << r[3][1],
         Mul(r[3][2], r[1]) + Mul(r[3][3], r[2]),
         Mul(r[3][3], r[1]) - Mul(r[3][2], r[2]) >>)
RotY(alpha, v) ==
    With(<<Cos(alpha), Sin(alpha), v>>, LAMBDA r :
      << Mul(r[3][1], r[1]) + Mul(r[3][3], r[2]),
         r[3][2],
         Mul(r[3][3], r[1]) - Mul(r[3][1], r[2]) >>)
RotAxis(k, angle, v) ==
    With(<<Cos(angle), Sin(angle), v>>, LAMBDA r :
      Vec3Add(Vec3Add(Vec3Scale(r[3], r[1]), Vec3Scale(Vec3Cross(k, r[3]), r[2])),
              Vec3Scale(k, Mul(Vec3Dot(k, r[3]), One - r[1]))))

RECURSIVE ApplyRolls(_, _)
ApplyRolls(rolls, v) ==
    IF rolls = <<>> THEN v
    ELSE With(RotAxis(Head(rolls).axis, Head(rolls).angle, v), LAMBDA rolled :
           ApplyRolls(Tail(rolls), rolled))

\* rotation * v
QuatMulVec(rotation, v) ==
    ApplyRolls(rotation.base, RotY(rotation.alpha, RotXNeg(rotation.beta, v)))

\* Transform::local_z(): rotation * Vec3::Z.
local_z(transform) == QuatMulVec(transform.rotation, <<0, 0, One>>)

\* Transform::rotate_axis(axis, angle) on the base transform: the rotation becomes
\* from_axis_angle(axis, angle) * rotation, and a rotation by zero is the identity.
rotate_axis(base_transform, axis, angle) ==
    IF angle = 0 THEN base_transform
    ELSE [base_transform EXCEPT
            !.rotation = Append(@, [axis |-> axis, angle |-> angle])]

\* The transform of a camera at (alpha, beta, radius) around focus, in the frame of
\* the base transform.  The sine and cosine of an angle that is not finite are NaN,
\* and so is every component of the translation.
update_orbit_transform(alpha, beta, radius, focus, basis) ==
    With([base |-> basis.rotation, alpha |-> alpha, beta |-> beta], LAMBDA rotation :
      [rotation |-> rotation,
       translation |-> IF IsFinite(alpha) /\ IsFinite(beta)
                       THEN Vec3FAdd(focus, QuatMulVec(rotation, <<0, 0, radius>>))
                       ELSE <<NaN, NaN, NaN>>])

(***************************************************************************)
(* lib.rs: the components and resources.                                   *)
(***************************************************************************)

\* impl Default for PanOrbitCamera.  focus_bounds_origin and focus_bounds_shape are
\* the fields that examples/focus_bounds.rs sets; lib.rs as it stands does not
\* declare them, and a camera without a shape behaves as lib.rs says.
DefaultCamera ==
    [ focus |-> Vec3Zero, target_focus |-> Vec3Zero,
      focus_bounds_origin |-> Vec3Zero, focus_bounds_shape |-> None,
      radius |-> None, scale |-> None, alpha |-> None, beta |-> None,
      target_alpha |-> 0, target_beta |-> 0,
      target_radius |-> One, target_scale |-> One,
      alpha_upper_limit |-> None, alpha_lower_limit |-> None,
      beta_upper_limit |-> None, beta_lower_limit |-> None,
      zoom_upper_limit |-> None, zoom_lower_limit |-> None,
      orbit_sensitivity |-> One, orbit_smoothness |-> (4 * One) \div 5,
      pan_sensitivity |-> One, pan_smoothness |-> (3 * One) \div 5,
      zoom_sensitivity |-> One, zoom_smoothness |-> (4 * One) \div 5,
      roll_sensitivity |-> One,
      button_orbit |-> "Left", button_pan |-> "Right",
      modifier_orbit |-> None, modifier_pan |-> None,
      key_roll_right |-> None, key_roll_left |-> None,
      touch_enabled |-> TRUE, touch_roll_enabled |-> FALSE,
      reversed_zoom |-> FALSE,
      is_upside_down |-> FALSE, allow_upside_down |-> FALSE,
      enabled |-> TRUE, initialized |-> FALSE, force_update |-> FALSE,
      base_transform |-> [rotation |-> <<>>] ]

\* impl Default for ActiveCameraData (derived).
DefaultActiveCameraData ==
    [entity |-> None, viewport_size |-> None, window_size |-> None, manual |-> FALSE]

\* impl Default for MouseKeyTracker (derived).
DefaultMouseKeyTracker ==
    [ orbit |-> Vec2Zero, pan |-> Vec2Zero, scroll_line |-> 0, scroll_pixel |-> 0,
      roll_angle |-> 0, orbit_button_changed |-> FALSE ]

\* impl Default for TouchTracker (derived): a pair of Option<Touch> is the sequence
\* of the touches that are Some.
DefaultTouchTracker == [curr_pressed |-> <<>>, prev_pressed |-> <<>>]

\* Projection::Perspective(fov, aspect_ratio) and Projection::Orthographic(scale,
\* area), in one record shape.
PerspectiveProjection ==
    [ kind |-> "Perspective", fov |-> PI \div 4, aspect_ratio |-> (4 * One) \div 3,
      scale |-> One, area |-> <<0, 0>> ]
OrthographicProjection(scale) ==
    [ kind |-> "Orthographic", fov |-> 0, aspect_ratio |-> One,
      scale |-> scale, area |-> <<8 * One, 6 * One>> ]

(***************************************************************************)
(* input.rs: the button and modifier predicates, and the touch gestures.   *)
(* mouse_input and key_input are Input<T>: [pressed, just_pressed,         *)
(* just_released], sets of buttons and of keys.                            *)
(***************************************************************************)

\* Option::map_or(true, |modifier| key_input.pressed(modifier)) and its negation.
ModifierHeld(modifier, key_input) ==
    IsSome(modifier) => Unwrap(modifier) \in key_input.pressed
ModifierNotHeld(modifier, key_input) ==
    IsSome(modifier) => Unwrap(modifier) \notin key_input.pressed

orbit_pressed(pan_orbit, mouse_input, key_input) ==
    /\ ModifierHeld(pan_orbit.modifier_orbit, key_input)
    /\ pan_orbit.button_orbit \in mouse_input.pressed
    /\ ModifierNotHeld(pan_orbit.modifier_pan, key_input)

orbit_just_pressed(pan_orbit, mouse_input, key_input) ==
    /\ ModifierHeld(pan_orbit.modifier_orbit, key_input)
    /\ pan_orbit.button_orbit \in mouse_input.just_pressed
    /\ ModifierNotHeld(pan_orbit.modifier_pan, key_input)

orbit_just_released(pan_orbit, mouse_input, key_input) ==
    /\ ModifierHeld(pan_orbit.modifier_orbit, key_input)
    /\ pan_orbit.button_orbit \in mouse_input.just_released
    /\ ModifierNotHeld(pan_orbit.modifier_pan, key_input)

pan_pressed(pan_orbit, mouse_input, key_input) ==
    /\ ModifierHeld(pan_orbit.modifier_pan, key_input)
    /\ pan_orbit.button_pan \in mouse_input.pressed
    /\ ModifierNotHeld(pan_orbit.modifier_orbit, key_input)

pan_just_pressed(pan_orbit, mouse_input, key_input) ==
    /\ ModifierHeld(pan_orbit.modifier_pan, key_input)
    /\ pan_orbit.button_pan \in mouse_input.just_pressed
    /\ ModifierNotHeld(pan_orbit.modifier_orbit, key_input)

\* Vec2 helpers on whole-pixel vectors.
Vec2Add(a, b) == <<a[1] + b[1], a[2] + b[2]>>
Vec2Sub(a, b) == <<a[1] - b[1], a[2] - b[2]>>
\* Vec2 * f32: pixels scaled by a grid factor (a sensitivity).
Vec2Scale(a, s) == <<Mul(a[1], s), Mul(a[2], s)>>
\* Midpoint::midpoint: self + (other - self) / 2.
midpoint(a, b) ==
    <<a[1] + RoundDiv(b[1] - a[1], 2), a[2] + RoundDiv(b[2] - a[2], 2)>>
\* Vec2::distance, as a grid quantity (to a tenth of a pixel).
Vec2Distance(a, b) ==
    LET d == Vec2Sub(a, b)
    IN  ISqrt(100 * (d[1] * d[1] + d[2] * d[2])) * (One \div 10)
\* Vec2::angle_between(rhs) for a unit rhs: acos(dot / (|a| |rhs|)) with the sign of
\* the perpendicular dot product.  The inputs never hold a zero vector (two touches
\* at one position), for which the program computes NaN.
Vec2AngleBetween(a, rhs) ==
    LET dot == a[1] * rhs[1] + a[2] * rhs[2]
        len10 == ISqrt(100 * (a[1] * a[1] + a[2] * a[2]))
        perp == a[1] * rhs[2] - a[2] * rhs[1]
        angle == IF len10 = 0 THEN 0 ELSE ACos(RoundDiv(dot * 10 * One, len10))
    IN  IF perp >= 0 THEN angle ELSE -angle

\* TouchTracker::calculate_movement: [orbit, pan, roll_angle, zoom_pixel].
calculate_movement(touch_tracker) ==
    LET curr == touch_tracker.curr_pressed
        prev == touch_tracker.prev_pressed
    IN  IF Len(curr) = 1 /\ Len(prev) = 1
        THEN [ orbit |-> Vec2Sub(curr[1].position, prev[1].position),
               pan |-> Vec2Zero, roll_angle |-> 0, zoom_pixel |-> 0 ]
        ELSE IF Len(curr) = 2 /\ Len(prev) = 2
        THEN
          LET curr_midpoint == midpoint(curr[1].position, curr[2].position)
              prev_midpoint == midpoint(prev[1].position, prev[2].position)
              curr_dist == Vec2Distance(curr[1].position, curr[2].position)
              prev_dist == Vec2Distance(prev[1].position, prev[2].position)
              prev_vec == Vec2Sub(prev[2].position, prev[1].position)
              curr_vec == Vec2Sub(curr[2].position, curr[1].position)
              roll_angle_negy == Vec2AngleBetween(prev_vec, <<0, -1>>)
                                 - Vec2AngleBetween(curr_vec, <<0, -1>>)
              roll_angle_posy == Vec2AngleBetween(prev_vec, <<0, 1>>)
                                 - Vec2AngleBetween(curr_vec, <<0, 1>>)
          IN  [ orbit |-> Vec2Zero,
                pan |-> Vec2Sub(curr_midpoint, prev_midpoint),
                roll_angle |-> IF Abs(roll_angle_negy) < Abs(roll_angle_posy)
                               THEN roll_angle_negy ELSE roll_angle_posy,
                zoom_pixel |-> Mul(curr_dist - prev_dist, (15 * One) \div 1000) ]
        ELSE [ orbit |-> Vec2Zero, pan |-> Vec2Zero, roll_angle |-> 0,
               zoom_pixel |-> 0 ]

(***************************************************************************)
(* lib.rs: pan_orbit_camera, for one entity of the query.                  *)
(***************************************************************************)

\* A faulty variant of the zoom limits, which applies the floor before the limits.
apply_zoom_limits_floor_first(pan_orbit, zoom) ==
    clamp_optional(Max(zoom, ZoomFloor), pan_orbit.zoom_lower_limit,
                   pan_orbit.zoom_upper_limit)

apply_zoom_limits(pan_orbit, zoom) ==
    Max(clamp_optional(zoom, pan_orbit.zoom_lower_limit, pan_orbit.zoom_upper_limit),
        ZoomFloor)

\* A faulty variant of the alpha limits, which ignores the upper limit.
apply_alpha_limits_lower_only(pan_orbit, alpha) ==
    clamp_optional(alpha, pan_orbit.alpha_lower_limit, None)

apply_alpha_limits(pan_orbit, alpha) ==
    clamp_optional(alpha, pan_orbit.alpha_lower_limit, pan_orbit.alpha_upper_limit)

apply_beta_limits(pan_orbit, beta) ==
    clamp_optional(beta, pan_orbit.beta_lower_limit, pan_orbit.beta_upper_limit)

\* Option::get_or_insert.
GetOrInsert(option, value) == IF IsSome(option) THEN Unwrap(option) ELSE value
\* Option::unwrap_or.
UnwrapOr(option, value) == IF IsSome(option) THEN Unwrap(option) ELSE value

\* A faulty variant of the lazy initialization, which the properties of the latch
\* must tell apart: the block runs but leaves initialized false.
LazyInitWithoutLatch(pan_orbit, transform, projection) ==
    IF pan_orbit.initialized
    THEN [ pan_orbit |-> pan_orbit, transform |-> transform,
           projection |-> projection, ran |-> FALSE ]
    ELSE [ pan_orbit |-> [pan_orbit EXCEPT !.alpha = Some(0), !.beta = Some(0),
                                           !.radius = Some(pan_orbit.target_radius)],
           transform |-> transform, projection |-> projection, ran |-> TRUE ]

\* A faulty variant of the lazy initialization, which seeds alpha, beta and radius
\* without applying the limits to them.
LazyInitUnclamped(pan_orbit, transform, projection) ==
    IF pan_orbit.initialized
    THEN [ pan_orbit |-> pan_orbit, transform |-> transform,
           projection |-> projection, ran |-> FALSE ]
    ELSE
      With(calculate_from_translation_and_focus(transform.translation,
                                                pan_orbit.focus), LAMBDA calc :
      LET alpha == GetOrInsert(pan_orbit.alpha, calc[1])
          beta == GetOrInsert(pan_orbit.beta, calc[2])
          radius == GetOrInsert(pan_orbit.radius, calc[3])
          ortho == projection.kind = "Orthographic"
          scale == IF ortho
                   THEN Some(GetOrInsert(pan_orbit.scale, projection.scale))
                   ELSE pan_orbit.scale
          p_scale == IF ortho THEN apply_zoom_limits(pan_orbit, Unwrap(scale))
                     ELSE projection.scale
      IN  [ pan_orbit |->
              [pan_orbit EXCEPT
                 !.alpha = Some(alpha), !.beta = Some(beta), !.radius = Some(radius),
                 !.target_alpha = alpha, !.target_beta = beta,
                 !.target_radius = radius, !.target_focus = pan_orbit.focus,
                 !.scale = scale,
                 !.target_scale = IF ortho THEN p_scale ELSE @,
                 !.initialized = TRUE],
            transform |-> update_orbit_transform(alpha, beta, radius, pan_orbit.focus,
                                                 pan_orbit.base_transform),
            projection |-> [projection EXCEPT !.scale = p_scale],
            ran |-> TRUE ])

\* if !pan_orbit.initialized { ... }: the lazy initialization.  Returns the three
\* components and whether the block ran.
LazyInit(pan_orbit, transform, projection) ==
    IF pan_orbit.initialized
    THEN [ pan_orbit |-> pan_orbit, transform |-> transform,
           projection |-> projection, ran |-> FALSE ]
    ELSE
      With(calculate_from_translation_and_focus(transform.translation,
                                                pan_orbit.focus), LAMBDA calc :
      LET alpha == apply_alpha_limits(pan_orbit, GetOrInsert(pan_orbit.alpha, calc[1]))
          beta == apply_beta_limits(pan_orbit, GetOrInsert(pan_orbit.beta, calc[2]))
          radius == apply_zoom_limits(pan_orbit, GetOrInsert(pan_orbit.radius, calc[3]))
          ortho == projection.kind = "Orthographic"
          scale == IF ortho
                   THEN Some(GetOrInsert(pan_orbit.scale, projection.scale))
                   ELSE pan_orbit.scale
          p_scale == IF ortho THEN apply_zoom_limits(pan_orbit, Unwrap(scale))
                     ELSE projection.scale
      IN  [ pan_orbit |->
              [pan_orbit EXCEPT
                 !.alpha = Some(alpha), !.beta = Some(beta), !.radius = Some(radius),
                 !.target_alpha = alpha, !.target_beta = beta,
                 !.target_radius = radius, !.target_focus = pan_orbit.focus,
                 !.scale = scale,
                 !.target_scale = IF ortho THEN p_scale ELSE @,
                 !.initialized = TRUE],
            transform |-> update_orbit_transform(alpha, beta, radius, pan_orbit.focus,
                                                 pan_orbit.base_transform),
            projection |-> [projection EXCEPT !.scale = p_scale],
            ran |-> TRUE ])

\* A faulty variant of the gate, which lets every camera read the trackers.
InputLiveAlways(entity, pan_orbit, active_cam) == TRUE

\* The gate of step 1: this entity reads the trackers.
InputLive(entity, pan_orbit, active_cam) ==
    pan_orbit.enabled /\ active_cam.entity = Some(entity)

\* A faulty variant of step 1, which takes the roll of two fingers whether the
\* camera has the touch roll enabled or not.
GetInputTouchRoll(entity, pan_orbit, active_cam, mouse_key_tracker, touch_tracker) ==
    IF InputLive(entity, pan_orbit, active_cam)
    THEN
      LET touch == calculate_movement(touch_tracker)
          zoom_direction == IF pan_orbit.reversed_zoom THEN -1 ELSE 1
          with_touch == pan_orbit.touch_enabled
      IN  [ orbit |->
              Vec2Add(Vec2Scale(mouse_key_tracker.orbit, pan_orbit.orbit_sensitivity),
                      IF with_touch
                      THEN Vec2Scale(touch.orbit, pan_orbit.orbit_sensitivity)
                      ELSE Vec2Zero),
            pan |->
              Vec2Add(Vec2Scale(mouse_key_tracker.pan, pan_orbit.pan_sensitivity),
                      IF with_touch
                      THEN Vec2Scale(touch.pan, pan_orbit.pan_sensitivity)
                      ELSE Vec2Zero),
            scroll_line |->
              Mul(mouse_key_tracker.scroll_line * zoom_direction,
                  pan_orbit.zoom_sensitivity),
            scroll_pixel |->
              Mul(mouse_key_tracker.scroll_pixel * zoom_direction,
                  pan_orbit.zoom_sensitivity)
              + (IF with_touch
                 THEN Mul(touch.zoom_pixel * zoom_direction, pan_orbit.zoom_sensitivity)
                 ELSE 0),
            roll_angle |->
              Mul(mouse_key_tracker.roll_angle, pan_orbit.roll_sensitivity)
              + (IF with_touch
                 THEN Mul(touch.roll_angle, pan_orbit.roll_sensitivity)
                 ELSE 0),
            orbit_button_changed |-> mouse_key_tracker.orbit_button_changed ]
    ELSE [ orbit |-> Vec2Zero, pan |-> Vec2Zero, scroll_line |-> 0,
           scroll_pixel |-> 0, roll_angle |-> 0, orbit_button_changed |-> FALSE ]

\* Step 1 - Get Input: the deltas this entity consumes in this tick.
GetInput(entity, pan_orbit, active_cam, mouse_key_tracker, touch_tracker) ==
    IF InputLive(entity, pan_orbit, active_cam)
    THEN
      LET touch == calculate_movement(touch_tracker)
          zoom_direction == IF pan_orbit.reversed_zoom THEN -1 ELSE 1
          with_touch == pan_orbit.touch_enabled
      IN  [ orbit |->
              Vec2Add(Vec2Scale(mouse_key_tracker.orbit, pan_orbit.orbit_sensitivity),
                      IF with_touch
                      THEN Vec2Scale(touch.orbit, pan_orbit.orbit_sensitivity)
                      ELSE Vec2Zero),
            pan |->
              Vec2Add(Vec2Scale(mouse_key_tracker.pan, pan_orbit.pan_sensitivity),
                      IF with_touch
                      THEN Vec2Scale(touch.pan, pan_orbit.pan_sensitivity)
                      ELSE Vec2Zero),
            scroll_line |->
              Mul(mouse_key_tracker.scroll_line * zoom_direction,
                  pan_orbit.zoom_sensitivity),
            scroll_pixel |->
              Mul(mouse_key_tracker.scroll_pixel * zoom_direction,
                  pan_orbit.zoom_sensitivity)
              + (IF with_touch
                 THEN Mul(touch.zoom_pixel * zoom_direction, pan_orbit.zoom_sensitivity)
                 ELSE 0),
            roll_angle |->
              Mul(mouse_key_tracker.roll_angle, pan_orbit.roll_sensitivity)
              + (IF with_touch /\ pan_orbit.touch_roll_enabled
                 THEN Mul(touch.roll_angle, pan_orbit.roll_sensitivity)
                 ELSE 0),
            orbit_button_changed |-> mouse_key_tracker.orbit_button_changed ]
    ELSE [ orbit |-> Vec2Zero, pan |-> Vec2Zero, scroll_line |-> 0,
           scroll_pixel |-> 0, roll_angle |-> 0, orbit_button_changed |-> FALSE ]

\* (target_beta % TAU).abs() lies strictly between a quarter and three quarters of
\* a turn.  Rust's % truncates, so the absolute value of the remainder is the
\* remainder of the absolute value.
UpsideDown(target_beta) ==
    LET wrapped_beta == Abs(target_beta) % TAU
    IN  wrapped_beta > TAU \div 4 /\ wrapped_beta < (3 * TAU) \div 4

\* A faulty variant of the recomputation, which recomputes the flag in every tick.
UpdateUpsideDownAlways(pan_orbit, orbit_button_changed) ==
    [pan_orbit EXCEPT !.is_upside_down = UpsideDown(pan_orbit.target_beta)]

\* Step 3, first part: is_upside_down is recomputed only when the orbit button
\* changed.
UpdateUpsideDown(pan_orbit, orbit_button_changed) ==
    IF orbit_button_changed
    THEN [pan_orbit EXCEPT !.is_upside_down = UpsideDown(pan_orbit.target_beta)]
    ELSE pan_orbit

\* orbit.x / win_size.x * PI * 2.0 and orbit.y / win_size.y * PI: pixels over a
\* size in pixels, times a fraction of a turn.  A size of zero gives an infinity with
\* the sign of the pixels, and NaN for 0.0 / 0.0.
PixelsToAngle(pixels, size, turn) ==
    IF size # 0 THEN RoundDiv(pixels * turn, size)
    ELSE IF pixels > 0 THEN Infinity
    ELSE IF pixels < 0 THEN -Infinity
    ELSE NaN

\* A faulty variant of the orbit step, which falls back on the viewport size when
\* the window size is not known.
IntegrateOrbitAnySize(pan_orbit, orbit, active_cam) ==
    IF Vec2NonZero(orbit)
          /\ (IsSome(active_cam.window_size) \/ IsSome(active_cam.viewport_size))
    THEN
      LET win_size == IF IsSome(active_cam.window_size)
                      THEN Unwrap(active_cam.window_size)
                      ELSE Unwrap(active_cam.viewport_size)
          delta == RoundDiv(orbit[1] * PI * 2, win_size[1])
          delta_x == IF pan_orbit.is_upside_down THEN -delta ELSE delta
          delta_y == RoundDiv(orbit[2] * PI, win_size[2])
      IN  [pan_orbit EXCEPT !.target_alpha = @ - delta_x, !.target_beta = @ + delta_y]
    ELSE pan_orbit

\* A faulty variant of the orbit step, which turns the same way whether the camera
\* is upside down or not.
IntegrateOrbitUpright(pan_orbit, orbit, active_cam) ==
    IF Vec2NonZero(orbit) /\ IsSome(active_cam.window_size)
    THEN
      LET win_size == Unwrap(active_cam.window_size)
          delta_x == PixelsToAngle(orbit[1], win_size[1], PI * 2)
          delta_y == PixelsToAngle(orbit[2], win_size[2], PI)
      IN  [pan_orbit EXCEPT !.target_alpha = FAdd(@, -delta_x),
                            !.target_beta = FAdd(@, delta_y)]
    ELSE pan_orbit

\* Step 3, orbit: the window size scales the motion into angles.
IntegrateOrbit(pan_orbit, orbit, active_cam) ==
    IF Vec2NonZero(orbit) /\ IsSome(active_cam.window_size)
    THEN
      LET win_size == Unwrap(active_cam.window_size)
          delta == PixelsToAngle(orbit[1], win_size[1], PI * 2)
          delta_x == IF pan_orbit.is_upside_down THEN -delta ELSE delta
          delta_y == PixelsToAngle(orbit[2], win_size[2], PI)
      IN  [pan_orbit EXCEPT !.target_alpha = FAdd(@, -delta_x),
                            !.target_beta = FAdd(@, delta_y)]
    ELSE pan_orbit

\* transform.rotation * axis * amount: the rotated axis, times an amount that may
\* not be finite.
RotatedAxisTimes(rotation, axis, amount) ==
    IF IsFinite(amount) THEN QuatMulVec(rotation, Vec3Scale(axis, amount))
    ELSE With(QuatMulVec(rotation, axis), LAMBDA v :
           << FMulNonFinite(v[1], amount), FMulNonFinite(v[2], amount),
              FMulNonFinite(v[3], amount) >>)
\* Vec3 * f32 for a positive factor: a component that is not finite stays as it is.
Vec3FScale(a, s) ==
    << IF IsFinite(a[1]) THEN Mul(a[1], s) ELSE a[1],
       IF IsFinite(a[2]) THEN Mul(a[2], s) ELSE a[2],
       IF IsFinite(a[3]) THEN Mul(a[3], s) ELSE a[3] >>

\* Step 3, pan: the viewport size and the projection scale the motion, which moves
\* the target focus along the camera's local right and up axes.
IntegratePan(pan_orbit, pan, active_cam, transform, projection) ==
    IF Vec2NonZero(pan) /\ IsSome(active_cam.viewport_size)
    THEN
      LET vp_size == Unwrap(active_cam.viewport_size)
          persp == projection.kind = "Perspective"
          factor == IF persp
                    THEN <<Mul(projection.fov, projection.aspect_ratio), projection.fov>>
                    ELSE projection.area
          scaled == << PixelsToAngle(pan[1], vp_size[1], factor[1]),
                       PixelsToAngle(pan[2], vp_size[2], factor[2]) >>
          multiplier == IF persp /\ IsSome(pan_orbit.radius)
                        THEN Unwrap(pan_orbit.radius) ELSE One
          right == RotatedAxisTimes(transform.rotation, <<One, 0, 0>>, -scaled[1])
          up == RotatedAxisTimes(transform.rotation, <<0, One, 0>>, scaled[2])
          translation == Vec3FScale(Vec3FAdd(right, up), multiplier)
      IN  [pan_orbit EXCEPT !.target_focus = Vec3FAdd(@, translation)]
    ELSE pan_orbit

\* A faulty variant of the zoom step, which changes the target by a fixed amount
\* for each unit of scroll, whatever the value of the target.
IntegrateZoomAdditive(pan_orbit, scroll_line, scroll_pixel, projection) ==
    IF Abs(scroll_line + scroll_pixel) > 0
    THEN
      LET fifth == One \div 5
          delta == Mul(-scroll_line, fifth) + Mul(-scroll_pixel, fifth)
      IN  IF projection.kind = "Orthographic"
          THEN [pan_orbit EXCEPT !.target_scale = @ + delta]
          ELSE [pan_orbit EXCEPT !.target_radius = @ + delta]
    ELSE pan_orbit

\* A faulty variant of the zoom step, which zooms the radius whatever the
\* projection is.
IntegrateZoomRadiusOnly(pan_orbit, scroll_line, scroll_pixel, projection) ==
    IF Abs(scroll_line + scroll_pixel) > 0
    THEN
      LET fifth == One \div 5
          line_delta == Mul(Mul(-scroll_line, pan_orbit.target_radius), fifth)
          pixel_delta == Mul(Mul(-scroll_pixel, pan_orbit.target_radius), fifth)
      IN  [pan_orbit EXCEPT
             !.target_radius = @ + line_delta + pixel_delta,
             !.radius = IF IsSome(@)
                        THEN Some(apply_zoom_limits(pan_orbit, Unwrap(@) + pixel_delta))
                        ELSE None]
    ELSE pan_orbit

\* Step 3, zoom: the scroll changes the target in proportion to its value, and the
\* pixel part also moves the current value.
IntegrateZoom(pan_orbit, scroll_line, scroll_pixel, projection) ==
    IF Abs(scroll_line + scroll_pixel) > 0
    THEN
      LET ortho == projection.kind = "Orthographic"
          target_value == IF ortho THEN pan_orbit.target_scale
                          ELSE pan_orbit.target_radius
          value == IF ortho THEN pan_orbit.scale ELSE pan_orbit.radius
          fifth == One \div 5
          line_delta == Mul(Mul(-scroll_line, target_value), fifth)
          pixel_delta == Mul(Mul(-scroll_pixel, target_value), fifth)
          new_target == target_value + line_delta + pixel_delta
          new_value == IF IsSome(value)
                       THEN Some(apply_zoom_limits(pan_orbit, Unwrap(value) + pixel_delta))
                       ELSE None
      IN  IF ortho
          THEN [pan_orbit EXCEPT !.target_scale = new_target, !.scale = new_value]
          ELSE [pan_orbit EXCEPT !.target_radius = new_target, !.radius = new_value]
    ELSE pan_orbit

\* has_moved: any of the three integrations ran.
HasMoved(orbit, pan, scroll_line, scroll_pixel, active_cam) ==
    \/ Vec2NonZero(orbit) /\ IsSome(active_cam.window_size)
    \/ Vec2NonZero(pan) /\ IsSome(active_cam.viewport_size)
    \/ Abs(scroll_line + scroll_pixel) > 0

\* A faulty variant of the hard clamp, which leaves target_beta alone.
ClampUpsideDownNever(pan_orbit, target_beta) == target_beta

\* The hard clamp of target_beta while the camera may not go upside down.
ClampUpsideDown(pan_orbit, target_beta) ==
    IF ~pan_orbit.allow_upside_down
    THEN clamp(target_beta, -(PI \div 2), PI \div 2)
    ELSE target_beta

\* Step 4 - Apply constraints.
ApplyConstraints(pan_orbit) ==
    [pan_orbit EXCEPT
       !.target_alpha = apply_alpha_limits(pan_orbit, @),
       !.target_beta = ClampUpsideDown(pan_orbit, apply_beta_limits(pan_orbit, @)),
       !.target_radius = apply_zoom_limits(pan_orbit, @),
       !.target_scale = apply_zoom_limits(pan_orbit, @)]

\* The bounding shapes of the focus, both centred at the origin of the bounds:
\* Cuboid::new(x, y, z) keeps the half sizes, Sphere::new(r) the radius.
Cuboid(x_length, y_length, z_length) ==
    [ kind |-> "Cuboid",
      half_size |-> <<x_length \div 2, y_length \div 2, z_length \div 2>>,
      radius |-> 0 ]
Sphere(radius) == [kind |-> "Sphere", half_size |-> Vec3Zero, radius |-> radius]

\* The closest point of the shape to a point, both relative to the centre: each
\* component cut to the half size for a cuboid; for a sphere the point itself when
\* it is within the radius, and the point of the surface in its direction
\* otherwise.
closest_point(shape, point) ==
    IF shape.kind = "Cuboid"
    THEN << clamp(point[1], -shape.half_size[1], shape.half_size[1]),
            clamp(point[2], -shape.half_size[2], shape.half_size[2]),
            clamp(point[3], -shape.half_size[3], shape.half_size[3]) >>
    ELSE With(Vec3Length(point), LAMBDA len :
           IF len <= shape.radius THEN point
           ELSE << RoundDiv(point[1] * shape.radius, len),
                   RoundDiv(point[2] * shape.radius, len),
                   RoundDiv(point[3] * shape.radius, len) >>)

\* clamp_focus(focus, origin, shape?): the closest point within or on the shape to
\* focus - origin, offset back by origin; the identity without a shape.
clamp_focus(focus, origin, shape) ==
    IF IsSome(shape)
    THEN Vec3Add(closest_point(Unwrap(shape), Vec3Sub(focus, origin)), origin)
    ELSE focus

\* A faulty variant of the focus bounds, which takes the focus for a point relative
\* to the centre of the shape.
ApplyFocusBoundsAtZero(pan_orbit) ==
    [pan_orbit EXCEPT
       !.target_focus = clamp_focus(@, Vec3Zero, pan_orbit.focus_bounds_shape)]

\* Step 4, the bounds of the focus: target_focus is clamped by the bounding shape.
ApplyFocusBounds(pan_orbit) ==
    [pan_orbit EXCEPT
       !.target_focus = clamp_focus(@, pan_orbit.focus_bounds_origin,
                                    pan_orbit.focus_bounds_shape)]

\* A faulty variant of the condition, which advances the current values in every
\* tick in which alpha, beta and radius are present.
NeedsUpdateAlways(pan_orbit, has_moved, roll_angle) ==
    IsSome(pan_orbit.alpha) /\ IsSome(pan_orbit.beta) /\ IsSome(pan_orbit.radius)

\* Step 5: the condition under which the current values are advanced.
NeedsUpdate(pan_orbit, has_moved, roll_angle) ==
    /\ IsSome(pan_orbit.alpha) /\ IsSome(pan_orbit.beta) /\ IsSome(pan_orbit.radius)
    /\ \/ has_moved
       \/ pan_orbit.target_alpha # Unwrap(pan_orbit.alpha)
       \/ pan_orbit.target_beta # Unwrap(pan_orbit.beta)
       \/ pan_orbit.target_radius # Unwrap(pan_orbit.radius)
       \/ pan_orbit.target_focus # pan_orbit.focus
       \/ roll_angle # 0
       \/ Some(pan_orbit.target_scale) # pan_orbit.scale
       \/ pan_orbit.force_update

\* Step 5 - Update the camera's transform based on current values.
Advance(pan_orbit, transform, projection) ==
    With([ alpha |-> lerp_and_snap_f32(Unwrap(pan_orbit.alpha), pan_orbit.target_alpha,
                                       pan_orbit.orbit_smoothness),
           beta |-> lerp_and_snap_f32(Unwrap(pan_orbit.beta), pan_orbit.target_beta,
                                      pan_orbit.orbit_smoothness),
           radius |-> lerp_and_snap_f32(Unwrap(pan_orbit.radius),
                                        pan_orbit.target_radius,
                                        pan_orbit.zoom_smoothness),
           scale |-> lerp_and_snap_f32(UnwrapOr(pan_orbit.scale,
                                                pan_orbit.target_scale),
                                       pan_orbit.target_scale,
                                       pan_orbit.zoom_smoothness),
           focus |-> lerp_and_snap_vec3(pan_orbit.focus, pan_orbit.target_focus,
                                        pan_orbit.pan_smoothness) ], LAMBDA new :
      [ pan_orbit |->
          [pan_orbit EXCEPT
             !.alpha = Some(new.alpha), !.beta = Some(new.beta),
             !.radius = Some(new.radius), !.scale = Some(new.scale),
             !.focus = new.focus, !.force_update = FALSE],
        transform |-> update_orbit_transform(new.alpha, new.beta, new.radius,
                                             new.focus, pan_orbit.base_transform),
        projection |-> IF projection.kind = "Orthographic"
                       THEN [projection EXCEPT !.scale = new.scale]
                       ELSE projection ])

\* Step 2 - Adjust basis transform based on roll.
AdjustBasis(pan_orbit, transform, roll_angle) ==
    [pan_orbit EXCEPT
       !.base_transform = rotate_axis(@, local_z(transform), roll_angle)]

\* Step 5, for a pass whose steps 1 to 4 gave limited: the components after the
\* pass and the record of what the pass did.
FinishPass(init, in, has_moved, limited) ==
    With(NeedsUpdate(limited, has_moved, in.roll_angle), LAMBDA update :
    With(IF update THEN Advance(limited, init.transform, init.projection)
         ELSE [ pan_orbit |-> limited, transform |-> init.transform,
                projection |-> init.projection ], LAMBDA done :
      [ pan_orbit |-> done.pan_orbit, transform |-> done.transform,
        projection |-> done.projection,
        did |-> [ init |-> init.ran, input |-> in, has_moved |-> has_moved,
                  update |-> update ] ]))

\* One pass of the loop body for one entity.  The result holds the three components
\* and a record of what the pass did (which blocks ran, the deltas it consumed).
CameraTick(entity, pan_orbit, transform, projection, active_cam, mouse_key_tracker, touch_tracker) ==
    With(LazyInit(pan_orbit, transform, projection), LAMBDA init :
    With(GetInput(entity, init.pan_orbit, active_cam, mouse_key_tracker,
                  touch_tracker), LAMBDA in :
    With(AdjustBasis(init.pan_orbit, init.transform, in.roll_angle), LAMBDA rolled :
    With(UpdateUpsideDown(rolled, in.orbit_button_changed), LAMBDA flipped :
    With(IntegrateOrbit(flipped, in.orbit, active_cam), LAMBDA orbited :
    With(IntegratePan(orbited, in.pan, active_cam, init.transform, init.projection),
         LAMBDA panned :
    With(IntegrateZoom(panned, in.scroll_line, in.scroll_pixel, init.projection),
         LAMBDA zoomed :
    With(ApplyFocusBounds(ApplyConstraints(zoomed)), LAMBDA limited :
      FinishPass(init, in,
                 HasMoved(in.orbit, in.pan, in.scroll_line, in.scroll_pixel, active_cam),
                 limited)))))))))

(***************************************************************************)
(* The state.                                                              *)
(***************************************************************************)
VARIABLES
    pan_orbit,        \* entity -> its PanOrbitCamera component
    transform,        \* entity -> its Transform component
    projection,       \* entity -> its Projection component
    camera,           \* entity -> its Camera component (order, target, viewport)
    active_cam,       \* the ActiveCameraData resource
    camera_movement,  \* the MouseKeyTracker resource
    touch_tracker,    \* the TouchTracker resource
    input,            \* the engine's input resources and unread events of the frame
    stage,            \* the position of the frame in the chained schedule
    ran,              \* the input trackers that have run in this frame
    frame,            \* the number of frames started
    did,              \* entity -> what its last pass of pan_orbit_camera did
    call,             \* the call of a pure helper that SpecUtil applies, and its result
    egui              \* the EguiWantsFocus and EguiFocusIncludesHover resources, and
                      \* the egui contexts as check_egui_wants_focus read them

vars == << pan_orbit, transform, projection, camera, active_cam, camera_movement,
           touch_tracker, input, stage, ran, frame, did, call, egui >>

\* The number of frames a behaviour runs.
MaxFrames == 2

Entities == DOMAIN pan_orbit

\* No input: nothing pressed, no events, no cursor.
NoInput ==
    [ mouse |-> [pressed |-> {}, just_pressed |-> {}, just_released |-> {}],
      keys |-> [pressed |-> {}, just_pressed |-> {}, just_released |-> {}],
      mouse_motion |-> <<>>, mouse_wheel |-> <<>>,
      motion_arrived |-> <<>>, wheel_arrived |-> <<>>,
      touches |-> <<>>, touches_just_pressed |-> <<>>, touches_previous |-> <<>>,
      cursor |-> None, delta_seconds |-> 0 ]

\* No call of a pure helper is under way.
NoCall == [fn |-> "none"]

\* The record of a pass that has not happened.
NoInputDeltas ==
    [ orbit |-> Vec2Zero, pan |-> Vec2Zero, scroll_line |-> 0, scroll_pixel |-> 0,
      roll_angle |-> 0, orbit_button_changed |-> FALSE ]
NoPass == [init |-> FALSE, input |-> NoInputDeltas, has_moved |-> FALSE,
           update |-> FALSE]

\* impl Default for EguiWantsFocus and EguiFocusIncludesHover (derived); no egui
\* context has been read.
DefaultEgui(include_hover) ==
    [ wants_focus |-> [prev |-> FALSE, curr |-> FALSE],
      include_hover |-> include_hover,
      contexts |-> <<>>, contexts_previous |-> <<>> ]

\* A Camera component that renders to the whole primary window.
WindowSize == <<800, 600>>
FullWindowCamera ==
    [ order |-> 0, target |-> "Window",
      viewport_rect |-> Some([min |-> <<0, 0>>, max |-> WindowSize]) ]

\* The state after App::new() ... add_plugins(PanOrbitCameraPlugin) and the startup
\* systems that spawn the cameras: setups maps each entity to the components it was
\* spawned with, [pan_orbit, translation, projection, camera].
InitPlugin(setups, include_hover) ==
    /\ pan_orbit = [e \in DOMAIN setups |-> setups[e].pan_orbit]
    /\ transform = [e \in DOMAIN setups |->
                      [rotation |-> QuatIdentity, translation |-> setups[e].translation]]
    /\ projection = [e \in DOMAIN setups |-> setups[e].projection]
    /\ camera = [e \in DOMAIN setups |-> setups[e].camera]
    /\ active_cam = DefaultActiveCameraData
    /\ camera_movement = DefaultMouseKeyTracker
    /\ touch_tracker = DefaultTouchTracker
    /\ input = NoInput
    /\ stage = "start"
    /\ ran = {}
    /\ frame = 0
    /\ did = [e \in DOMAIN setups |-> NoPass]
    /\ call = NoCall
    /\ egui = DefaultEgui(include_hover)

InitWith(setups) == InitPlugin(setups, FALSE)

(***************************************************************************)
(* The environment: the engine's input systems and the application's own   *)
(* systems, which run before the plugin's chain in every frame.            *)
(***************************************************************************)

\* A write of the application to a camera component or to ActiveCameraData:
\* [kind, entity, value, point], the value a scalar and the point a Vec3.
ApplyWriteCamera(po, write) ==
    CASE write.kind = "target_alpha" -> [po EXCEPT !.target_alpha = write.value]
      [] write.kind = "target_beta" -> [po EXCEPT !.target_beta = write.value]
      [] write.kind = "target_radius" -> [po EXCEPT !.target_radius = write.value]
      [] write.kind = "target_scale" -> [po EXCEPT !.target_scale = write.value]
      [] write.kind = "target_focus" -> [po EXCEPT !.target_focus = write.point]
      [] write.kind = "force_update" -> [po EXCEPT !.force_update = TRUE]
      [] write.kind = "disable" -> [po EXCEPT !.enabled = FALSE]
      [] write.kind = "enable" -> [po EXCEPT !.enabled = TRUE]
      [] write.kind = "touch_off" -> [po EXCEPT !.touch_enabled = FALSE]
      [] write.kind = "touch_on" -> [po EXCEPT !.touch_enabled = TRUE]
      [] OTHER -> po

\* update_active_cam of examples/manual_override.rs: the application takes the
\* resource over and names the active entity itself, with both sizes, with one of
\* them left None, or with a window size or a viewport size of its own (the first two
\* components of the write's point).
ApplyWriteActive(ac, write) ==
    CASE write.kind = "manual" ->
           [ entity |-> Some(write.entity), viewport_size |-> Some(WindowSize),
             window_size |-> Some(WindowSize), manual |-> TRUE ]
      [] write.kind = "manual_no_window" ->
           [ entity |-> Some(write.entity), viewport_size |-> Some(WindowSize),
             window_size |-> None, manual |-> TRUE ]
      [] write.kind = "manual_no_viewport" ->
           [ entity |-> Some(write.entity), viewport_size |-> None,
             window_size |-> Some(WindowSize), manual |-> TRUE ]
      [] write.kind = "manual_window_size" ->
           [ entity |-> Some(write.entity), viewport_size |-> Some(WindowSize),
             window_size |-> Some(<<write.point[1], write.point[2]>>),
             manual |-> TRUE ]
      [] write.kind = "manual_viewport_size" ->
           [ entity |-> Some(write.entity),
             viewport_size |-> Some(<<write.point[1], write.point[2]>>),
             window_size |-> Some(WindowSize), manual |-> TRUE ]
      [] OTHER -> ac

NoWrite == [kind |-> "none", entity |-> 0, value |-> 0, point |-> Vec3Zero]

\* The events of earlier frames that a reader of mouse_key_tracker can still read
\* at the start of a frame: none when the tracker ran in the frame before (it reads
\* every event, input.rs:30-38); otherwise none, or those it had not read, as the
\* engine has dropped them or not.
UnreadEvents ==
    { [motion |-> <<>>, wheel |-> <<>>] }
    \cup (IF stage = "end" /\ "mouse" \notin ran
          THEN { [motion |-> input.mouse_motion, wheel |-> input.mouse_wheel] }
          ELSE {})

\* One frame's input.  A behaviour is cut after max_frames frames when bounded is
\* set, and runs on otherwise.  An event ev gives the buttons and keys held in this frame,
\* the MouseMotion and MouseWheel events, the pressed touches, the cursor position
\* and the application's write.  Input<T> derives just_pressed and just_released
\* from the previous frame, and Touches keeps the touches of the previous frame
\* (Touch::previous_position).  The window events of a frame are sent before the
\* frame's schedule runs; mouse_motion and mouse_wheel are the events the readers
\* of mouse_key_tracker have not read yet: those that arrive in this frame
\* (motion_arrived, wheel_arrived) and, when the tracker did not run in the frame
\* before, the events it left unread, which the engine keeps until it has swapped
\* its two buffers twice; whether it has by now depends on the engine's version and
\* on its fixed time step (EventUpdateSignal), so both outcomes are possible.  first
\* is the stage of the schedule that follows.
EnvInto(events, bounded, max_frames, first) ==
    /\ stage \in {"start", "end"}
    /\ bounded => frame < max_frames
    /\ \E ev \in events, kept \in UnreadEvents :
         /\ input' =
              [ mouse |-> [ pressed |-> ev.buttons,
                            just_pressed |-> ev.buttons \ input.mouse.pressed,
                            just_released |-> input.mouse.pressed \ ev.buttons ],
                keys |-> [ pressed |-> ev.keys,
                           just_pressed |-> ev.keys \ input.keys.pressed,
                           just_released |-> input.keys.pressed \ ev.keys ],
                mouse_motion |-> kept.motion \o ev.motion,
                mouse_wheel |-> kept.wheel \o ev.wheel,
                motion_arrived |-> ev.motion,
                wheel_arrived |-> ev.wheel,
                touches |-> ev.touches,
                touches_just_pressed |->
                    SelectSeq(ev.touches,
                              LAMBDA t : \A i \in 1..Len(input.touches) :
                                            input.touches[i].id # t.id),
                touches_previous |-> input.touches,
                cursor |-> ev.cursor,
                delta_seconds |-> ev.delta_seconds ]
         /\ pan_orbit' = [e \in Entities |->
                            IF ev.write.entity = e /\ ev.write.kind # "manual"
                            THEN ApplyWriteCamera(pan_orbit[e], ev.write)
                            ELSE pan_orbit[e]]
         /\ active_cam' = ApplyWriteActive(active_cam, ev.write)
    /\ stage' = first
    /\ ran' = {}
    /\ frame' = IF bounded THEN frame + 1 ELSE frame
    /\ UNCHANGED <<transform, projection, camera, camera_movement, touch_tracker, did,
                   call, egui>>

\* The frames of the plain plugin: the first system of the chain comes next.
EnvUpTo(events, bounded, max_frames) == EnvInto(events, bounded, max_frames, "viewport")

Env(events, bounded) == EnvUpTo(events, bounded, MaxFrames)

(***************************************************************************)
(* lib.rs: active_viewport_data.                                           *)
(***************************************************************************)

\* Camera::logical_viewport_size().
logical_viewport_size(cam) ==
    IF IsSome(cam.viewport_rect)
    THEN Some(Vec2Sub(Unwrap(cam.viewport_rect).max, Unwrap(cam.viewport_rect).min))
    ELSE None

input_just_activated(po, inp) ==
    \/ orbit_just_pressed(po, inp.mouse, inp.keys)
    \/ pan_just_pressed(po, inp.mouse, inp.keys)
    \/ inp.mouse_wheel # <<>>
    \/ /\ Len(inp.touches_just_pressed) > 0
       /\ Len(inp.touches_just_pressed) = Len(inp.touches)

\* window.cursor_position().or(the first just pressed touch's position)
InputPosition(inp) ==
    IF IsSome(inp.cursor) THEN inp.cursor
    ELSE IF inp.touches_just_pressed # <<>>
         THEN Some(inp.touches_just_pressed[1].position)
         ELSE None

\* The body of the loop for one camera: acc is [new_resource, max_cam_order,
\* has_input].
ViewportStep(acc, entity, cam, po, inp) ==
    IF ~input_just_activated(po, inp) THEN acc
    ELSE
      LET pos == InputPosition(inp)
          rect == Unwrap(cam.viewport_rect)
          cursor_in_vp ==
              /\ Unwrap(pos)[1] > rect.min[1] /\ Unwrap(pos)[1] < rect.max[1]
              /\ Unwrap(pos)[2] > rect.min[2] /\ Unwrap(pos)[2] < rect.max[2]
      IN  IF /\ cam.target = "Window"
             /\ IsSome(pos)
             /\ IsSome(cam.viewport_rect)
             /\ cursor_in_vp
             /\ cam.order >= acc.max_cam_order
          THEN [ new_resource |->
                   [ entity |-> Some(entity),
                     viewport_size |-> logical_viewport_size(cam),
                     window_size |-> Some(WindowSize),
                     manual |-> FALSE ],
                 max_cam_order |-> cam.order,
                 has_input |-> TRUE ]
          ELSE [acc EXCEPT !.has_input = TRUE]

\* The loop over the query, in the order of the entities.
RECURSIVE ViewportLoop(_, _, _, _, _)
ViewportLoop(acc, entities, cams, pos, inp) ==
    IF entities = {} THEN acc
    ELSE LET e == CHOOSE x \in entities : \A y \in entities : x <= y
         IN  ViewportLoop(ViewportStep(acc, e, cams[e], pos[e], inp),
                          entities \ {e}, cams, pos, inp)

\* The resource after the system: set_if_neq(new_resource) when there was input.
active_viewport_data(ac, cams, pos, inp) ==
    LET acc == ViewportLoop([ new_resource |-> DefaultActiveCameraData,
                              max_cam_order |-> 0, has_input |-> FALSE ],
                            DOMAIN pos, cams, pos, inp)
    IN  IF acc.has_input THEN acc.new_resource ELSE ac

\* A faulty variant of the system's schedule, which drops the run condition.
ActiveViewportDataUnconditional ==
    /\ stage = "viewport"
    /\ active_cam' = active_viewport_data(active_cam, camera, pan_orbit, input)
    /\ stage' = "trackers"
    /\ UNCHANGED << pan_orbit, transform, projection, camera, camera_movement,
                    touch_tracker, input, ran, frame, did, call, egui >>

\* The system runs unless the resource is managed manually:
\* .run_if(|active_cam| !active_cam.manual)
ActiveViewportData ==
    /\ stage = "viewport"
    /\ active_cam' = IF ~active_cam.manual
                     THEN active_viewport_data(active_cam, camera, pan_orbit, input)
                     ELSE active_cam
    /\ stage' = "trackers"
    /\ UNCHANGED << pan_orbit, transform, projection, camera, camera_movement,
                    touch_tracker, input, ran, frame, did, call, egui >>

(***************************************************************************)
(* input.rs: mouse_key_tracker and touch_tracker.  The two systems are not *)
(* ordered with respect to each other; both run before pan_orbit_camera.   *)
(***************************************************************************)

RECURSIVE SumMotion(_)
SumMotion(events) ==
    IF events = <<>> THEN Vec2Zero ELSE Vec2Add(Head(events), SumMotion(Tail(events)))

\* The fold over the MouseWheel events: <<line, pixel>>, a pixel event counting
\* for y * 0.005.
RECURSIVE SumWheel(_)
SumWheel(events) ==
    IF events = <<>> THEN <<0, 0>>
    ELSE LET rest == SumWheel(Tail(events))
             ev == Head(events)
         IN  IF ev.unit = "Line" THEN <<rest[1] + ev.y, rest[2]>>
             ELSE <<rest[1], rest[2] + Mul(ev.y, (5 * One) \div 1000)>>

\* A faulty variant of the tracker, which pans when both the orbit and the pan
\* controls are held.
mouse_key_tracker_pan_first(movement, inp, ac, pos) ==
    IF IsSome(ac.entity) /\ Unwrap(ac.entity) \in DOMAIN pos
    THEN
      LET po == pos[Unwrap(ac.entity)]
          mouse_delta == SumMotion(inp.mouse_motion)
          scroll == SumWheel(inp.mouse_wheel)
          roll_amount == Mul(Mul(TAU, (3 * One) \div 10), inp.delta_seconds)
          left == IsSome(po.key_roll_left) /\ Unwrap(po.key_roll_left) \in inp.keys.pressed
          right == IsSome(po.key_roll_right)
                   /\ Unwrap(po.key_roll_right) \in inp.keys.pressed
      IN  [ orbit |-> IF orbit_pressed(po, inp.mouse, inp.keys)
                         /\ ~pan_pressed(po, inp.mouse, inp.keys)
                      THEN mouse_delta ELSE Vec2Zero,
            pan |-> IF pan_pressed(po, inp.mouse, inp.keys) THEN mouse_delta
                    ELSE Vec2Zero,
            scroll_line |-> scroll[1],
            scroll_pixel |-> scroll[2],
            roll_angle |-> (IF right THEN roll_amount ELSE 0)
                           - (IF left THEN roll_amount ELSE 0),
            orbit_button_changed |->
                \/ orbit_just_pressed(po, inp.mouse, inp.keys)
                \/ orbit_just_released(po, inp.mouse, inp.keys) ]
    ELSE movement

\* The resource after the system.
mouse_key_tracker(movement, inp, ac, pos) ==
    IF IsSome(ac.entity) /\ Unwrap(ac.entity) \in DOMAIN pos
    THEN
      LET po == pos[Unwrap(ac.entity)]
          mouse_delta == SumMotion(inp.mouse_motion)
          scroll == SumWheel(inp.mouse_wheel)
          roll_amount == Mul(Mul(TAU, (3 * One) \div 10), inp.delta_seconds)
          left == IsSome(po.key_roll_left) /\ Unwrap(po.key_roll_left) \in inp.keys.pressed
          right == IsSome(po.key_roll_right)
                   /\ Unwrap(po.key_roll_right) \in inp.keys.pressed
      IN  [ orbit |-> IF orbit_pressed(po, inp.mouse, inp.keys) THEN mouse_delta
                      ELSE Vec2Zero,
            pan |-> IF ~orbit_pressed(po, inp.mouse, inp.keys)
                       /\ pan_pressed(po, inp.mouse, inp.keys)
                    THEN mouse_delta ELSE Vec2Zero,
            scroll_line |-> scroll[1],
            scroll_pixel |-> scroll[2],
            roll_angle |-> (IF right THEN roll_amount ELSE 0)
                           - (IF left THEN roll_amount ELSE 0),
            orbit_button_changed |->
                \/ orbit_just_pressed(po, inp.mouse, inp.keys)
                \/ orbit_just_released(po, inp.mouse, inp.keys) ]
    ELSE movement

\* A faulty variant of the chain, in which the camera system follows the first
\* tracker that has run.
AfterTrackerFirst(name) == "camera"

\* The stage after a tracker has run: the camera system follows the second one.
AfterTracker(name) == IF ran \cup {name} = {"mouse", "touch"} THEN "camera" ELSE stage

MouseKeyTracker ==
    /\ stage = "trackers"
    /\ "mouse" \notin ran
    /\ camera_movement' = mouse_key_tracker(camera_movement, input, active_cam, pan_orbit)
    /\ ran' = ran \cup {"mouse"}
    /\ stage' = AfterTracker("mouse")
    /\ UNCHANGED << pan_orbit, transform, projection, camera, active_cam,
                    touch_tracker, input, frame, did, call, egui >>

\* The resource after the system: the pressed touches become the current pair.
touch_tracker_system(tracker, inp) ==
    LET pressed == inp.touches
    IN  CASE Len(pressed) = 0 -> [curr_pressed |-> <<>>, prev_pressed |-> <<>>]
          [] Len(pressed) = 1 -> [ curr_pressed |-> <<pressed[1]>>,
                                   prev_pressed |-> tracker.curr_pressed ]
          [] Len(pressed) = 2 -> [ curr_pressed |-> <<pressed[1], pressed[2]>>,
                                   prev_pressed |-> tracker.curr_pressed ]
          [] OTHER -> tracker

\* The run condition: touch is enabled in the active PanOrbitCamera, if there is one.
TouchTrackerRuns(ac, pos) ==
    /\ IsSome(ac.entity)
    /\ Unwrap(ac.entity) \in DOMAIN pos
    /\ pos[Unwrap(ac.entity)].touch_enabled

TouchTracker ==
    /\ stage = "trackers"
    /\ "touch" \notin ran
    /\ touch_tracker' = IF TouchTrackerRuns(active_cam, pan_orbit)
                        THEN touch_tracker_system(touch_tracker, input)
                        ELSE touch_tracker
    /\ ran' = ran \cup {"touch"}
    /\ stage' = AfterTracker("touch")
    /\ UNCHANGED << pan_orbit, transform, projection, camera, active_cam,
                    camera_movement, input, frame, did, call, egui >>

(***************************************************************************)
(* lib.rs: pan_orbit_camera, the loop over the query.                      *)
(***************************************************************************)

\* The pass of every entity of the query.
Passes ==
    [ e \in Entities |->
        CameraTick(e, pan_orbit[e], transform[e], projection[e], active_cam,
                   camera_movement, touch_tracker) ]

PanOrbitCamera ==
    /\ stage = "camera"
    /\ \E pass \in {Passes} :
         /\ pan_orbit' = [e \in Entities |-> pass[e].pan_orbit]
         /\ transform' = [e \in Entities |-> pass[e].transform]
         /\ projection' = [e \in Entities |-> pass[e].projection]
         /\ did' = [e \in Entities |-> pass[e].did]
    /\ stage' = "end"
    /\ UNCHANGED << camera, active_cam, camera_movement, touch_tracker, input, ran,
                    frame, call, egui >>

(***************************************************************************)
(* Spec: one camera that renders to the whole window, under mouse, key and *)
(* wheel input and the application's writes.                               *)
(***************************************************************************)

\* The camera starts at (0, 1.5, 5), as in the examples.
StartTranslation == <<0, (3 * One) \div 2, 5 * One>>

SetupOf(po, proj) ==
    [ pan_orbit |-> po, translation |-> StartTranslation, projection |-> proj,
      camera |-> FullWindowCamera ]

WithSmoothness(po, smoothness) ==
    [po EXCEPT !.orbit_smoothness = smoothness, !.pan_smoothness = smoothness,
               !.zoom_smoothness = smoothness]

Half == One \div 2
ControlLeft == Some("ControlLeft")

\* Orbiting with and without a modifier key, upside down allowed or not.
OrbitCameras ==
    { WithSmoothness([DefaultCamera EXCEPT !.allow_upside_down = a,
                                           !.modifier_orbit = m], sm) :
        a \in BOOLEAN, m \in {None, ControlLeft}, sm \in {0, Half} }
    \cup { WithSmoothness([DefaultCamera EXCEPT !.beta = Some((7 * One) \div 4)], One) }

\* Limits on alpha and beta: inside the quarter turn, beyond it, and one-sided.
LimitCameras ==
    { WithSmoothness([DefaultCamera EXCEPT
                        !.allow_upside_down = a,
                        !.alpha_lower_limit = Some(-(One \div 4)),
                        !.alpha_upper_limit = Some(One \div 4),
                        !.beta_lower_limit = b[1], !.beta_upper_limit = b[2]], 0) :
        a \in BOOLEAN,
        b \in { <<Some(-Half), Some(Half)>>,
                <<Some((7 * One) \div 4), Some((9 * One) \div 4)>>,
                <<None, Some(-(7 * One) \div 4)>> } }

\* Limits on the zoom: none, an upper limit below the floor, and a range.
ZoomLimits ==
    { <<None, None>>, <<None, Some(One \div 50)>>, <<Some(One), Some(5 * One)>> }
ZoomCameras ==
    { WithSmoothness([DefaultCamera EXCEPT !.zoom_lower_limit = z[1],
                                           !.zoom_upper_limit = z[2]], Half) :
        z \in ZoomLimits }

\* Cameras the application marks as initialized, to animate them from the current
\* values it gives to the targets it gives.
AnimatedCameras ==
    { [DefaultCamera EXCEPT !.initialized = TRUE, !.force_update = f] :
        f \in BOOLEAN }
    \cup
    { WithSmoothness([DefaultCamera EXCEPT
                        !.initialized = TRUE,
                        !.alpha = Some(One), !.beta = Some(Half),
                        !.radius = Some(5 * One), !.scale = Some(One),
                        !.target_alpha = One, !.target_beta = b,
                        !.target_radius = 5 * One,
                        !.alpha_upper_limit = u], Half) :
        b \in {Half, One}, u \in {None, Some(Half)} }

Setups ==
    { SetupOf(po, PerspectiveProjection) :
        po \in OrbitCameras \cup LimitCameras \cup ZoomCameras \cup AnimatedCameras }
    \cup { SetupOf(po, OrthographicProjection(One \div 100)) : po \in ZoomCameras }

\* The frames of Spec.  The cursor is over the window.
CursorInWindow == Some(<<400, 300>>)
EventOf(buttons, keys, motion, wheel, write) ==
    [ buttons |-> buttons, keys |-> keys, motion |-> motion, wheel |-> wheel,
      touches |-> <<>>, cursor |-> CursorInWindow, delta_seconds |-> One \div 60,
      write |-> write ]
WriteTo(entity, kind, value) ==
    [kind |-> kind, entity |-> entity, value |-> value, point |-> Vec3Zero]

MouseEvents ==
    { EventOf(b, k, m, <<>>, NoWrite) :
        b \in SUBSET {"Left"}, k \in SUBSET {"ControlLeft"},
        m \in {<<>>, << <<200, 400>> >>} }
WheelEvents ==
    { EventOf({}, {}, <<>>, <<w>>, NoWrite) :
        w \in { [unit |-> "Line", y |-> One], [unit |-> "Line", y |-> -One],
                [unit |-> "Pixel", y |-> 40 * One] } }
Writes ==
    { WriteTo(1, "target_alpha", -One), WriteTo(1, "target_beta", (7 * One) \div 4),
      WriteTo(1, "target_radius", 0), WriteTo(1, "target_scale", -One),
      WriteTo(1, "force_update", 0), WriteTo(1, "disable", 0),
      WriteTo(2, "manual", 0) }
WriteEvents == { EventOf({}, {}, <<>>, <<>>, w) : w \in Writes }

Events == MouseEvents \cup WheelEvents \cup WriteEvents

Init == \E setup \in Setups : InitWith([e \in {1} |-> setup])

Frame == Env(Events, TRUE)

Next ==
    \/ Frame
    \/ ActiveViewportData
    \/ MouseKeyTracker
    \/ TouchTracker
    \/ PanOrbitCamera

Spec == Init /\ [][Next]_vars

(***************************************************************************)
(* SpecSmooth: a camera that never reads input (it is disabled, or the     *)
(* cursor is outside the window, so it never becomes the active camera)    *)
(* and that the application has set up to animate from its current values  *)
(* to its targets.  The schedule runs in every frame, for ever.            *)
(***************************************************************************)

SmoothFocusTargets ==
    { Vec3Zero, <<One, 0, 0>>, <<0, One, 0>>, <<One, -One, Half>> }

SmoothCameras ==
    { WithSmoothness([DefaultCamera EXCEPT
                        !.enabled = en, !.initialized = TRUE,
                        !.alpha = Some(0), !.beta = Some(0),
                        !.radius = Some(5 * One), !.scale = Some(One),
                        !.target_alpha = a, !.target_beta = b,
                        !.target_radius = r, !.target_focus = f], sm) :
        en \in BOOLEAN, a \in {0, One}, b \in {0, Half}, r \in {5 * One, 3 * One},
        f \in SmoothFocusTargets, sm \in {0, (3 * One) \div 5} }

SmoothEvents ==
    { [ EventOf(b, {}, m, <<>>, NoWrite) EXCEPT !.cursor = None ] :
        b \in SUBSET {"Left"}, m \in {<<>>, << <<200, 400>> >>} }

InitSmooth ==
    \E po \in SmoothCameras : InitWith([e \in {1} |-> SetupOf(po, PerspectiveProjection)])

FrameSmooth == Env(SmoothEvents, FALSE)

NextSmooth ==
    \/ FrameSmooth
    \/ ActiveViewportData
    \/ MouseKeyTracker
    \/ TouchTracker
    \/ PanOrbitCamera

SpecSmooth == InitSmooth /\ [][NextSmooth]_vars /\ WF_vars(NextSmooth)

\* Every current value of the orbit has reached its target.
Arrived(po) ==
    /\ po.alpha = Some(po.target_alpha) /\ po.beta = Some(po.target_beta)
    /\ po.radius = Some(po.target_radius)
    /\ po.focus = po.target_focus

\* C6: a disabled or non-active camera with a smoothness below 1 keeps moving its
\* current values toward the targets and eventually reaches alpha, beta, radius and
\* focus equal to their targets.
C6_EventuallyArrives ==
    <>(\A e \in Entities : Arrived(pan_orbit[e]))

(***************************************************************************)
(* SpecTouch: one camera under the mouse and the touch screen at once:     *)
(* both buttons, mouse motion, and one or two fingers that move between    *)
(* frames.                                                                 *)
(***************************************************************************)

\* A Touch: its id and its position.
TouchAt(id, position) == [id |-> id, position |-> position]
\* One finger and two fingers, before and after they have moved.
FingerPositions ==
    { << TouchAt(1, <<300, 300>>) >>, << TouchAt(1, <<340, 280>>) >>,
      << TouchAt(1, <<300, 300>>), TouchAt(2, <<500, 300>>) >>,
      << TouchAt(1, <<340, 280>>), TouchAt(2, <<520, 330>>) >> }

TouchCameras ==
    { WithSmoothness([DefaultCamera EXCEPT !.touch_enabled = t, !.modifier_pan = m], 0) :
        t \in BOOLEAN, m \in {None, ControlLeft} }

\* The mouse alone, the fingers alone, and a button held while the fingers move.
TouchEvents ==
    { EventOf(b, k, << <<200, 400>> >>, <<>>, NoWrite) :
        b \in SUBSET {"Left", "Right"}, k \in SUBSET {"ControlLeft"} }
    \cup { [EventOf({}, {}, <<>>, <<>>, NoWrite) EXCEPT !.touches = f] :
             f \in FingerPositions }
    \cup { [EventOf({b}, {}, << <<200, 400>> >>, <<>>, NoWrite) EXCEPT !.touches = f] :
             b \in {"Left", "Right"}, f \in FingerPositions }

InitTouch ==
    \E po \in TouchCameras : InitWith([e \in {1} |-> SetupOf(po, PerspectiveProjection)])

FrameTouch == Env(TouchEvents, TRUE)

NextTouch ==
    \/ FrameTouch
    \/ ActiveViewportData
    \/ MouseKeyTracker
    \/ TouchTracker
    \/ PanOrbitCamera

SpecTouch == InitTouch /\ [][NextTouch]_vars

(***************************************************************************)
(* SpecUtil: the pure helpers of util.rs and traits.rs, each applied to     *)
(* inputs drawn from a bounded set.  The cameras and the schedule take no   *)
(* part: call holds the helper, its arguments, the argument of its last     *)
(* application (input) and the result (value).                              *)
(***************************************************************************)

\* The number of times lerp_and_snap is applied to its own result, and the number
\* of times clamp_optional is.
MaxLerpSteps == 80
MaxClampSteps == 2

\* The state of the plugin, which the helpers do not touch.
plugin_vars == << pan_orbit, transform, projection, camera, active_cam, camera_movement,
                  touch_tracker, input, stage, ran, frame, did, egui >>

\* Smoothness values: none, a half, the default 0.8, the 0.9 of the tests, and 1
\* (no movement).
Smoothnesses == {0, Half, (4 * One) \div 5, (9 * One) \div 10, One}

\* lerp_and_snap_f32(from, to, smoothness), to be applied to its own result.
LerpCalls ==
    { [ fn |-> "lerp_and_snap_f32", from |-> from, to |-> to, smoothness |-> sm,
        input |-> from, value |-> from, steps |-> 0 ] :
        from \in {-One, 0, Half, 3 * One}, to \in {0, One}, sm \in Smoothnesses }

\* lerp_and_snap_vec3(from, to, smoothness): from the origin and from a point close
\* to the target (0.9991 of it, as in the tests), along each axis and along all.
Vec3Targets == { <<One, 0, 0>>, <<0, One, 0>>, <<0, 0, One>>, <<One, One, One>> }
Vec3Calls ==
    { [ fn |-> "lerp_and_snap_vec3", from |-> from, to |-> to, smoothness |-> sm,
        input |-> from, value |-> from, steps |-> 0 ] :
        from \in {Vec3Zero} \cup { Vec3Scale(v, (9991 * One) \div 10000) : v \in Vec3Targets },
        to \in Vec3Targets, sm \in Smoothnesses }

\* calculate_from_translation_and_focus(translation, focus) followed by
\* update_orbit_transform: positions in front, to each side, above, below and
\* behind the focus.
Offsets ==
    { <<0, 0, 5 * One>>, <<5 * One, 0, 0>>, <<-5 * One, 0, 0>>, <<0, 5 * One, 0>>,
      <<0, -(5 * One), 0>>, <<0, 0, -(5 * One)>>, <<3 * One, 4 * One, -(2 * One)>>,
      <<-(3 * One), One, 2 * One>>, <<-One, -(2 * One), -(2 * One)>>,
      <<0, (3 * One) \div 2, 5 * One>>, <<One \div 4, 0, One \div 4>> }
RoundTripCalls ==
    { [ fn |-> "round_trip", translation |-> Vec3Add(focus, offset), focus |-> focus,
        value |-> Vec3Zero, steps |-> 0 ] :
        offset \in Offsets, focus \in {Vec3Zero, <<One, -One, 2 * One>>} }

\* calculate_from_translation_and_focus(translation, focus) alone: the positions of
\* the round trip, the focus itself, and two positions closer to the focus than the
\* floor of the radius.
NearOffsets == { Vec3Zero, <<0, 0, One \div 100>>, <<0, -(One \div 50), 0>> }
DeriveCalls ==
    { [ fn |-> "calculate_from_translation_and_focus",
        translation |-> Vec3Add(focus, offset), focus |-> focus,
        value |-> Vec3Zero, steps |-> 0 ] :
        offset \in Offsets \cup NearOffsets,
        focus \in {Vec3Zero, <<One, -One, 2 * One>>} }

\* clamp_optional(x, lo, hi), to be applied to its own result.
OptionalBounds == {None, Some(-One), Some(0), Some(One)}
ClampCalls ==
    { [ fn |-> "clamp_optional", x |-> x, lo |-> lo, hi |-> hi,
        input |-> x, value |-> x, steps |-> 0 ] :
        x \in {-(2 * One), -One, -1, 0, Half, One, 3 * One},
        lo \in OptionalBounds, hi \in OptionalBounds }

InitUtil ==
    /\ \/ call \in LerpCalls
       \/ call \in Vec3Calls
       \/ call \in RoundTripCalls
       \/ call \in DeriveCalls
       \/ call \in ClampCalls
    /\ pan_orbit = <<>> /\ transform = <<>> /\ projection = <<>> /\ camera = <<>>
    /\ did = <<>>
    /\ active_cam = DefaultActiveCameraData
    /\ camera_movement = DefaultMouseKeyTracker
    /\ touch_tracker = DefaultTouchTracker
    /\ input = NoInput
    /\ stage = "start" /\ ran = {} /\ frame = 0
    /\ egui = DefaultEgui(FALSE)

LerpAndSnapF32 ==
    /\ call.fn = "lerp_and_snap_f32"
    /\ call.steps < MaxLerpSteps
    /\ call' = [call EXCEPT
                  !.input = call.value,
                  !.value = lerp_and_snap_f32(call.value, call.to, call.smoothness),
                  !.steps = @ + 1]
    /\ UNCHANGED plugin_vars

LerpAndSnapVec3 ==
    /\ call.fn = "lerp_and_snap_vec3"
    /\ call.steps < MaxLerpSteps
    /\ call' = [call EXCEPT
                  !.input = call.value,
                  !.value = lerp_and_snap_vec3(call.value, call.to, call.smoothness),
                  !.steps = @ + 1]
    /\ UNCHANGED plugin_vars

\* The position update_orbit_transform gives for the alpha, beta and radius that
\* calculate_from_translation_and_focus derives, around the same focus.
round_trip(translation, focus) ==
    With(calculate_from_translation_and_focus(translation, focus), LAMBDA abr :
      update_orbit_transform(abr[1], abr[2], abr[3], focus,
                             DefaultCamera.base_transform).translation)

RoundTrip ==
    /\ call.fn = "round_trip"
    /\ call.steps = 0
    /\ call' = [call EXCEPT !.value = round_trip(call.translation, call.focus),
                            !.steps = 1]
    /\ UNCHANGED plugin_vars

CalculateFromTranslationAndFocus ==
    /\ call.fn = "calculate_from_translation_and_focus"
    /\ call.steps = 0
    /\ call' = [call EXCEPT
                  !.value = calculate_from_translation_and_focus(call.translation,
                                                                 call.focus),
                  !.steps = 1]
    /\ UNCHANGED plugin_vars

ClampOptional ==
    /\ call.fn = "clamp_optional"
    /\ call.steps < MaxClampSteps
    /\ call' = [call EXCEPT
                  !.input = call.value,
                  !.value = clamp_optional(call.value, call.lo, call.hi),
                  !.steps = @ + 1]
    /\ UNCHANGED plugin_vars

NextUtil ==
    \/ LerpAndSnapF32
    \/ LerpAndSnapVec3
    \/ RoundTrip
    \/ CalculateFromTranslationAndFocus
    \/ ClampOptional

SpecUtil == InitUtil /\ [][NextUtil]_vars

(***************************************************************************)
(* SpecManual: the application manages ActiveCameraData itself and leaves  *)
(* the window size or the viewport size unset, while the mouse drags and   *)
(* scrolls.                                                                *)
(***************************************************************************)

ManualCameras == { WithSmoothness(DefaultCamera, Half) }

ManualWrites ==
    { WriteTo(1, k, 0) : k \in {"manual", "manual_no_window", "manual_no_viewport"} }

\* The application's write, or a drag with either button, with or without a scroll
\* of the wheel in the same frame.
ManualEvents ==
    { EventOf({}, {}, <<>>, <<>>, w) : w \in ManualWrites }
    \cup { EventOf({b}, {}, << <<200, 400>> >>, wheel, NoWrite) :
             b \in {"Left", "Right"},
             wheel \in { <<>>, << [unit |-> "Line", y |-> One] >>,
                         << [unit |-> "Pixel", y |-> 40 * One] >> } }

InitManual ==
    \E po \in ManualCameras :
       \E proj \in {PerspectiveProjection, OrthographicProjection(One)} :
          InitWith([e \in {1} |-> SetupOf(po, proj)])

FrameManual == Env(ManualEvents, TRUE)

NextManual ==
    \/ FrameManual
    \/ ActiveViewportData
    \/ MouseKeyTracker
    \/ TouchTracker
    \/ PanOrbitCamera

SpecManual == InitManual /\ [][NextManual]_vars

(***************************************************************************)
(* SpecZeroSize: the application manages ActiveCameraData itself and gives *)
(* a window or a viewport that has no width or no height, and the mouse     *)
(* drags with either button.  The cameras do not smooth (smoothness 0), so  *)
(* that a current value takes the value of its target, finite or not, in    *)
(* the tick that moves the target.                                          *)
(***************************************************************************)

ZeroSizeCameras ==
    { WithSmoothness([DefaultCamera EXCEPT !.orbit_sensitivity = os,
                                           !.alpha_lower_limit = lim], 0) :
        os \in {One, Half}, lim \in {None, Some(-(One \div 4))} }

\* Sizes with no width, with no height, with neither, and the size of the window.
Sizes == { <<0, 600>>, <<800, 0>>, <<0, 0>>, WindowSize }
ZeroSizeWrites ==
    { [ kind |-> k, entity |-> 1, value |-> 0, point |-> <<sz[1], sz[2], 0>> ] :
        k \in {"manual_window_size", "manual_viewport_size"}, sz \in Sizes }

ZeroSizeEvents ==
    { EventOf({}, {}, <<>>, <<>>, w) : w \in ZeroSizeWrites }
    \cup { EventOf({b}, {}, <<m>>, <<>>, NoWrite) :
             b \in {"Left", "Right"}, m \in { <<200, 400>>, <<-200, 400>> } }

InitZeroSize ==
    \E po \in ZeroSizeCameras : InitWith([e \in {1} |-> SetupOf(po, PerspectiveProjection)])

FrameZeroSize == Env(ZeroSizeEvents, TRUE)

NextZeroSize ==
    \/ FrameZeroSize
    \/ ActiveViewportData
    \/ MouseKeyTracker
    \/ TouchTracker
    \/ PanOrbitCamera

SpecZeroSize == InitZeroSize /\ [][NextZeroSize]_vars

(***************************************************************************)
(* SpecZoom: one camera at radius 5 (or scale 1 under an orthographic      *)
(* projection) under the wheel: line and pixel scrolls, alone and together, *)
(* with each zoom sensitivity and direction, with and without zoom limits,  *)
(* without smoothing, with some and with smoothness 1; and an orthographic  *)
(* camera that is given a scale of 0.01.                                    *)
(***************************************************************************)

WheelCameras ==
    { WithSmoothness([DefaultCamera EXCEPT
                        !.radius = Some(5 * One),
                        !.zoom_sensitivity = zs, !.reversed_zoom = rz,
                        !.zoom_lower_limit = z[1], !.zoom_upper_limit = z[2]], sm) :
        zs \in {One, Half}, rz \in BOOLEAN, sm \in {0, Half, One},
        z \in { <<None, None>>, <<Some(One), Some((9 * One) \div 2)>> } }

\* Cameras whose scale and target_scale the application sets to 0.01.
TinyScaleCameras ==
    { WithSmoothness([DefaultCamera EXCEPT
                        !.radius = Some(5 * One), !.target_radius = 5 * One,
                        !.scale = Some(One \div 100),
                        !.target_scale = One \div 100], sm) :
        sm \in {0, Half, One} }

\* One notch of the wheel in each direction, a scroll of 40 pixels, a scroll of 200
\* pixels the other way, a notch with a scroll of pixels in the same frame, and a
\* notch with the pixels that cancel it.
Wheels ==
    { << [unit |-> "Line", y |-> One] >>, << [unit |-> "Line", y |-> -One] >>,
      << [unit |-> "Pixel", y |-> 40 * One] >>,
      << [unit |-> "Pixel", y |-> -(200 * One)] >>,
      << [unit |-> "Line", y |-> One], [unit |-> "Pixel", y |-> 40 * One] >>,
      << [unit |-> "Line", y |-> One], [unit |-> "Pixel", y |-> -(200 * One)] >> }
ZoomEvents ==
    { EventOf({}, {}, <<>>, w, NoWrite) : w \in Wheels }
    \cup { EventOf({}, {}, <<>>, <<>>, WriteTo(1, "target_radius", 2 * One)) }

InitZoom ==
    \/ \E po \in WheelCameras :
          \E proj \in {PerspectiveProjection, OrthographicProjection(One)} :
             InitWith([e \in {1} |-> SetupOf(po, proj)])
    \/ \E po \in TinyScaleCameras :
          InitWith([e \in {1} |-> SetupOf(po, OrthographicProjection(One))])

FrameZoom == Env(ZoomEvents, TRUE)

NextZoom ==
    \/ FrameZoom
    \/ ActiveViewportData
    \/ MouseKeyTracker
    \/ TouchTracker
    \/ PanOrbitCamera

SpecZoom == InitZoom /\ [][NextZoom]_vars

(***************************************************************************)
(* SpecGesture: one camera under the touch screen alone, for three frames: *)
(* a finger that moves, a second finger, a third finger, fingers lifted and *)
(* pressed again, while the application switches touch_enabled off and on.  *)
(***************************************************************************)

\* The number of frames of a gesture.
MaxGestureFrames == 3

\* No finger, one finger in three places, another finger, and three fingers.
GestureTouches ==
    { <<>>, << TouchAt(1, <<300, 300>>) >>, << TouchAt(1, <<340, 280>>) >>,
      << TouchAt(2, <<600, 100>>) >>,
      << TouchAt(1, <<340, 280>>), TouchAt(2, <<520, 330>>),
         TouchAt(3, <<100, 100>>) >> }

GestureEvents ==
    { [EventOf({}, {}, <<>>, <<>>, w) EXCEPT !.touches = f] :
        f \in GestureTouches,
        w \in {NoWrite, WriteTo(1, "touch_off", 0), WriteTo(1, "touch_on", 0)} }

InitGesture ==
    InitWith([e \in {1} |-> SetupOf(WithSmoothness(DefaultCamera, 0), PerspectiveProjection)])

FrameGesture == EnvUpTo(GestureEvents, TRUE, MaxGestureFrames)

NextGesture ==
    \/ FrameGesture
    \/ ActiveViewportData
    \/ MouseKeyTracker
    \/ TouchTracker
    \/ PanOrbitCamera

SpecGesture == InitGesture /\ [][NextGesture]_vars

(***************************************************************************)
(* SpecBounds: one camera whose focus is kept inside a cuboid or a sphere, *)
(* under pan drags and under writes of target_focus by the application.    *)
(***************************************************************************)

BoundedCameras ==
    { WithSmoothness([DefaultCamera EXCEPT !.focus_bounds_shape = Some(shape),
                                           !.focus_bounds_origin = origin,
                                           !.pan_sensitivity = ps], Half) :
        shape \in {Cuboid(One, One, One), Cuboid(2 * One, One, 4 * One), Sphere(One)},
        origin \in {Vec3Zero, <<One, One, One>>},
        ps \in {One, 4 * One} }

\* Points far outside the shapes, close to them, and inside.
FocusWrites ==
    { [kind |-> "target_focus", entity |-> 1, value |-> 0, point |-> p] :
        p \in { <<5 * One, 5 * One, 5 * One>>, <<-(5 * One), One \div 5, 0>>,
                 <<One \div 5, 0, 0>>, <<One, (5 * One) \div 4, One>>,
                 <<0, 3 * One, 0>> } }

BoundsEvents ==
    { EventOf({}, {}, <<>>, <<>>, w) : w \in FocusWrites }
    \cup { EventOf({"Right"}, {}, <<m>>, <<>>, NoWrite) :
             m \in { <<200, 400>>, <<-300, -100>>, <<20, 0>> } }

InitBounds ==
    \E po \in BoundedCameras : InitWith([e \in {1} |-> SetupOf(po, PerspectiveProjection)])

FrameBounds == Env(BoundsEvents, TRUE)

NextBounds ==
    \/ FrameBounds
    \/ ActiveViewportData
    \/ MouseKeyTracker
    \/ TouchTracker
    \/ PanOrbitCamera

SpecBounds == InitBounds /\ [][NextBounds]_vars

(***************************************************************************)
(* SpecRoll: one camera, with the roll disabled (the default) or enabled   *)
(* by a key or for two fingers, under the roll keys, a mouse drag and two  *)
(* fingers that turn about each other.                                     *)
(***************************************************************************)

KeyQ == Some("KeyQ")
KeyE == Some("KeyE")
RollCameras ==
    { WithSmoothness([DefaultCamera EXCEPT !.key_roll_left = k[1],
                                           !.key_roll_right = k[2],
                                           !.touch_roll_enabled = t,
                                           !.roll_sensitivity = rs], 0) :
        k \in { <<None, None>>, <<KeyQ, None>>, <<KeyQ, KeyE>> },
        t \in BOOLEAN, rs \in {One, 2 * One} }

\* Two fingers side by side, and after the second has gone round the first.
TurningFingers ==
    { << TouchAt(1, <<300, 300>>), TouchAt(2, <<500, 300>>) >>,
      << TouchAt(1, <<300, 300>>), TouchAt(2, <<480, 400>>) >>,
      << TouchAt(1, <<300, 300>>), TouchAt(2, <<100, 290>>) >> }

RollEvents ==
    { EventOf(b, k, << <<200, 400>> >>, <<>>, NoWrite) :
        b \in {{}, {"Left"}}, k \in SUBSET {"KeyQ", "KeyE"} }
    \cup { [EventOf({}, k, <<>>, <<>>, NoWrite) EXCEPT !.touches = f] :
             k \in {{}, {"KeyQ"}, {"KeyE"}}, f \in TurningFingers }

InitRoll ==
    \E po \in RollCameras : InitWith([e \in {1} |-> SetupOf(po, PerspectiveProjection)])

FrameRoll == Env(RollEvents, TRUE)

NextRoll ==
    \/ FrameRoll
    \/ ActiveViewportData
    \/ MouseKeyTracker
    \/ TouchTracker
    \/ PanOrbitCamera

SpecRoll == InitRoll /\ [][NextRoll]_vars

(***************************************************************************)
(* egui.rs and the bevy_egui part of PanOrbitCameraPlugin::build:          *)
(* check_egui_wants_focus runs in every frame before the system set, and   *)
(* the set runs when EguiWantsFocus is {prev: false, curr: false}.         *)
(***************************************************************************)

\* An egui context of a window, as far as the system reads it.
EguiContext(pointer, keyboard, over_area) ==
    [ wants_pointer_input |-> pointer, wants_keyboard_input |-> keyboard,
      is_pointer_over_area |-> over_area ]

\* new_wants_focus: some window's context wants the pointer or the keyboard, or
\* has the pointer over an area when EguiFocusIncludesHover is set.
egui_wants_focus(contexts, include_hover) ==
    \E i \in DOMAIN contexts :
       \/ contexts[i].wants_pointer_input
       \/ contexts[i].wants_keyboard_input
       \/ include_hover /\ contexts[i].is_pointer_over_area

\* The resource after the system: new_res, which set_if_neq stores.
check_egui_wants_focus(wants_focus, contexts, include_hover) ==
    [prev |-> wants_focus.curr, curr |-> egui_wants_focus(contexts, include_hover)]

\* A faulty variant of the run condition, which looks at the current frame only.
SetRunsCurrOnly(wants_focus) == ~wants_focus.curr

\* The run condition of PanOrbitCameraSystemSet:
\* resource_equals(EguiWantsFocus { prev: false, curr: false }).
SetRuns(wants_focus) == wants_focus = [prev |-> FALSE, curr |-> FALSE]

\* The contexts of a frame: no window, one window whose context wants nothing, has
\* the pointer over an area, wants the pointer or wants the keyboard, and two
\* windows of which the second wants the pointer.
EguiContexts ==
    { <<>>,
      << EguiContext(FALSE, FALSE, FALSE) >>,
      << EguiContext(FALSE, FALSE, TRUE) >>,
      << EguiContext(TRUE, FALSE, TRUE) >>,
      << EguiContext(FALSE, TRUE, FALSE) >>,
      << EguiContext(FALSE, FALSE, FALSE), EguiContext(TRUE, FALSE, TRUE) >> }

CheckEguiWantsFocus ==
    /\ stage = "egui"
    /\ \E contexts \in EguiContexts :
         egui' = [egui EXCEPT
                    !.wants_focus = check_egui_wants_focus(@, contexts,
                                                           egui.include_hover),
                    !.contexts = contexts,
                    !.contexts_previous = egui.contexts]
    /\ stage' = "set"
    /\ UNCHANGED << pan_orbit, transform, projection, camera, active_cam,
                    camera_movement, touch_tracker, input, ran, frame, did, call >>

\* The scheduler evaluates the run condition of the set: its systems run in their
\* order, or none of them runs in this frame.
PanOrbitCameraSystemSet ==
    /\ stage = "set"
    /\ stage' = IF SetRuns(egui.wants_focus) THEN "viewport" ELSE "end"
    /\ UNCHANGED << pan_orbit, transform, projection, camera, active_cam,
                    camera_movement, touch_tracker, input, ran, frame, did, call,
                    egui >>

(***************************************************************************)
(* SpecEgui: the plugin built with the bevy_egui feature; one camera under *)
(* mouse drags and the wheel while egui takes and gives back the focus.    *)
(***************************************************************************)

MaxEguiFrames == 3

EguiEvents ==
    { EventOf({"Left"}, {}, << <<200, 400>> >>, <<>>, NoWrite),
      EventOf({}, {}, <<>>, << [unit |-> "Line", y |-> One] >>, NoWrite) }

InitEgui ==
    \E hover \in BOOLEAN :
       InitPlugin([e \in {1} |-> SetupOf(WithSmoothness(DefaultCamera, Half),
                                         PerspectiveProjection)], hover)

FrameEgui == EnvInto(EguiEvents, TRUE, MaxEguiFrames, "egui")

NextEgui ==
    \/ FrameEgui
    \/ CheckEguiWantsFocus
    \/ PanOrbitCameraSystemSet
    \/ ActiveViewportData
    \/ MouseKeyTracker
    \/ TouchTracker
    \/ PanOrbitCamera

SpecEgui == InitEgui /\ [][NextEgui]_vars

(***************************************************************************)
(* SpecOrbit: one camera under orbit drags, the right way up and upside    *)
(* down, with and without limits, at two sensitivities.                    *)
(***************************************************************************)

DragCameras ==
    { WithSmoothness([DefaultCamera EXCEPT !.allow_upside_down = a,
                                           !.beta = b,
                                           !.orbit_sensitivity = os,
                                           !.alpha_upper_limit = u], Half) :
        a \in BOOLEAN, b \in {None, Some((7 * One) \div 4)},
        os \in {One, Half}, u \in {None, Some(One \div 4)} }

Drags == { <<100, 0>>, <<-200, 400>>, <<0, -60>> }

DragEvents ==
    { EventOf({"Left"}, {}, <<m>>, <<>>, NoWrite) : m \in Drags }
    \cup { EventOf({}, {}, <<>>, <<>>, w) :
             w \in {NoWrite, WriteTo(1, "target_beta", (7 * One) \div 4)} }

InitOrbit ==
    \E po \in DragCameras : InitWith([e \in {1} |-> SetupOf(po, PerspectiveProjection)])

FrameOrbit == Env(DragEvents, TRUE)

NextOrbit ==
    \/ FrameOrbit
    \/ ActiveViewportData
    \/ MouseKeyTracker
    \/ TouchTracker
    \/ PanOrbitCamera

SpecOrbit == InitOrbit /\ [][NextOrbit]_vars

(***************************************************************************)
(* Properties.                                                             *)
(***************************************************************************)

\* A step of pan_orbit_camera, and the state it leaves.
Tick == stage = "camera" /\ stage' = "end"
AfterTick == stage = "end"

\* C1: initialized goes from false to true exactly once, in the first tick in which
\* pan_orbit_camera processes the entity, and the system never sets it back: no
\* step makes it false again, every tick leaves it true, the lazy initialization
\* runs in a tick exactly when the flag was false before it, and the current values
\* are advanced (the lerp step) only with the flag set and alpha, beta and radius
\* present.
C1_InitializedLatch ==
    [][ \A e \in Entities :
          /\ pan_orbit[e].initialized => pan_orbit'[e].initialized
          /\ Tick =>
               /\ pan_orbit'[e].initialized
               /\ did'[e].init <=> ~pan_orbit[e].initialized
               /\ did'[e].update =>
                    /\ LazyInit(pan_orbit[e], transform[e], projection[e])
                          .pan_orbit.initialized
                    /\ IsSome(pan_orbit'[e].alpha) /\ IsSome(pan_orbit'[e].beta)
                    /\ IsSome(pan_orbit'[e].radius) ]_vars

\* The first tick has initialized the camera and advanced it in the same pass.
C1_Witness ==
    /\ AfterTick /\ frame = 1
    /\ did[1].init /\ did[1].update
    /\ pan_orbit[1].initialized

\* C2: if force_update is true at the start of a tick, that tick recomputes the
\* transform (the update block runs) and force_update is false at its end.
C2_ForceUpdateHonoured ==
    [][ Tick =>
          \A e \in Entities :
             pan_orbit[e].force_update =>
                did'[e].update /\ ~pan_orbit'[e].force_update ]_vars

\* C3: in a tick in which the orbit_button_changed flag the entity consumes is false,
\* is_upside_down keeps its value, whatever target_beta does.
C3_UpsideDownKept ==
    [][ Tick =>
          \A e \in Entities :
             ~did'[e].input.orbit_button_changed =>
                pan_orbit'[e].is_upside_down = pan_orbit[e].is_upside_down ]_vars

\* In the middle of a drag the target has gone over the top, and the flag still
\* says the camera is upright.
C3_Witness ==
    /\ AfterTick
    /\ Vec2NonZero(did[1].input.orbit)
    /\ ~did[1].input.orbit_button_changed
    /\ UpsideDown(pan_orbit[1].target_beta)
    /\ ~pan_orbit[1].is_upside_down

\* Input<T>: what was pressed in the previous frame.
PreviouslyPressed(inp) == (inp.pressed \ inp.just_pressed) \cup inp.just_released
\* orbit_pressed as it was in the previous frame.
orbit_was_pressed(po, inp) ==
    orbit_pressed(po, [pressed |-> PreviouslyPressed(inp.mouse)],
                  [pressed |-> PreviouslyPressed(inp.keys)])

\* C4: for the active, enabled camera, is_upside_down is recomputed in every tick in
\* which orbit_pressed differs from the previous tick, whether the button or a
\* modifier key caused the change.
C4_RecomputedOnEveryChange ==
    [][ Tick =>
          \A e \in Entities :
             ( /\ InputLive(e, pan_orbit[e], active_cam)
               /\ pan_orbit[e].initialized
               /\ orbit_pressed(pan_orbit[e], input.mouse, input.keys)
                    # orbit_was_pressed(pan_orbit[e], input) )
             => /\ did'[e].input.orbit_button_changed
                /\ pan_orbit'[e].is_upside_down = UpsideDown(pan_orbit[e].target_beta)
       ]_vars

\* The target fields of a camera, and its targets after step 4 alone.
Targets(po) ==
    << po.target_alpha, po.target_beta, po.target_radius, po.target_scale,
       po.target_focus >>

\* The camera is disabled, or is not the entity of ActiveCameraData.
DisabledOrNotActive(e) == ~pan_orbit[e].enabled \/ active_cam.entity # Some(e)

\* C5: for a camera that is disabled or is not the active one, the tick treats all
\* input deltas as zero: target_alpha, target_beta, target_radius, target_scale and
\* target_focus are the values the tick started with (or the lazy initialization
\* gave), changed by the limit clamping of step 4 alone, and is_upside_down and the
\* rotation of base_transform keep their values.
C5_NoInputWhenNotLive ==
    [][ Tick =>
          \A e \in Entities :
             DisabledOrNotActive(e) =>
                LET start == LazyInit(pan_orbit[e], transform[e], projection[e]).pan_orbit
                IN  /\ did'[e].input = NoInputDeltas
                    /\ Targets(pan_orbit'[e]) = Targets(ApplyConstraints(start))
                    /\ pan_orbit'[e].target_focus = start.target_focus
                    /\ pan_orbit'[e].is_upside_down = pan_orbit[e].is_upside_down
                    /\ pan_orbit'[e].base_transform = pan_orbit[e].base_transform ]_vars

\* The tracker holds an orbit motion, and the camera, disabled or not active, has
\* taken none of it.
C5_Witness ==
    /\ AfterTick
    /\ Vec2NonZero(camera_movement.orbit)
    /\ DisabledOrNotActive(1)
    /\ did[1].input = NoInputDeltas

\* The premises of C7: the deltas a pass consumed are zero, and every current value
\* equals its target.
ZeroDeltas(in) ==
    /\ in.orbit = Vec2Zero /\ in.pan = Vec2Zero
    /\ in.scroll_line = 0 /\ in.scroll_pixel = 0 /\ in.roll_angle = 0
AtTargets(po) ==
    /\ po.alpha = Some(po.target_alpha) /\ po.beta = Some(po.target_beta)
    /\ po.radius = Some(po.target_radius) /\ po.scale = Some(po.target_scale)
    /\ po.focus = po.target_focus
Currents(po) == <<po.alpha, po.beta, po.radius, po.scale, po.focus>>
NothingWritten(e) ==
    /\ ~did'[e].update
    /\ transform'[e] = transform[e]
    /\ projection'[e] = projection[e]
    /\ Currents(pan_orbit'[e]) = Currents(pan_orbit[e])

\* C7 as stated: in a tick after initialization with zero deltas, force_update
\* false and every current value equal to its target, the Transform, the projection
\* scale and the current fields are not written.
C7_AsStated ==
    [][ Tick =>
          \A e \in Entities :
             ( /\ pan_orbit[e].initialized
               /\ ZeroDeltas(did'[e].input)
               /\ ~pan_orbit[e].force_update
               /\ AtTargets(pan_orbit[e]) )
             => NothingWritten(e) ]_vars

\* C7: in a tick after initialization with zero deltas, force_update false, every
\* current value equal to its target, and the targets within the constraints of
\* step 4 (the limits, the floor of the zoom and the quarter-turn clamp leave them
\* as they are), the Transform, the projection scale and the current fields are not
\* written.
C7_IdleTickWritesNothing ==
    [][ Tick =>
          \A e \in Entities :
             ( /\ pan_orbit[e].initialized
               /\ ZeroDeltas(did'[e].input)
               /\ ~pan_orbit[e].force_update
               /\ AtTargets(pan_orbit[e])
               /\ Targets(ApplyConstraints(pan_orbit[e])) = Targets(pan_orbit[e]) )
             => NothingWritten(e) ]_vars

\* A second tick that found the camera at rest within its constraints and skipped
\* the update.
C7_Witness ==
    /\ AfterTick /\ frame = 2
    /\ ~did[1].init /\ ~did[1].update
    /\ ZeroDeltas(did[1].input)
    /\ ~pan_orbit[1].force_update
    /\ AtTargets(pan_orbit[1])

Within(value, lower, upper) ==
    /\ IsSome(lower) => value >= Unwrap(lower)
    /\ IsSome(upper) => value <= Unwrap(upper)
\* Two optional bounds with lower <= upper where both are set.
Ordered(lower, upper) == (IsSome(lower) /\ IsSome(upper)) => Unwrap(lower) <= Unwrap(upper)

\* C9 as stated: at the end of every tick target_alpha lies within its limits and
\* target_beta within its limits, for every bound that is set, with lower <= upper.
C9_AsStated ==
    AfterTick =>
       \A e \in Entities :
          LET po == pan_orbit[e]
          IN  /\ Ordered(po.alpha_lower_limit, po.alpha_upper_limit) =>
                   Within(po.target_alpha, po.alpha_lower_limit, po.alpha_upper_limit)
              /\ Ordered(po.beta_lower_limit, po.beta_upper_limit) =>
                   Within(po.target_beta, po.beta_lower_limit, po.beta_upper_limit)

\* The beta limits as the quarter-turn clamp leaves them: with allow_upside_down
\* false, a lower limit above PI/2 and an upper limit below -PI/2 give way to it.
EffectiveBetaLimit(po, limit) ==
    IF IsSome(limit) /\ ~po.allow_upside_down
    THEN Some(clamp(Unwrap(limit), -(PI \div 2), PI \div 2))
    ELSE limit

\* C9: at the end of every tick target_alpha lies within its limits, for every bound
\* that is set, with lower <= upper; target_beta lies within its limits when
\* allow_upside_down is true, and otherwise within the limits cut to [-PI/2, PI/2].
C9_LimitsRespected ==
    AfterTick =>
       \A e \in Entities :
          LET po == pan_orbit[e]
          IN  /\ Ordered(po.alpha_lower_limit, po.alpha_upper_limit) =>
                   Within(po.target_alpha, po.alpha_lower_limit, po.alpha_upper_limit)
              /\ Ordered(po.beta_lower_limit, po.beta_upper_limit) =>
                   Within(po.target_beta,
                          EffectiveBetaLimit(po, po.beta_lower_limit),
                          EffectiveBetaLimit(po, po.beta_upper_limit))

\* An orbit drag against the limits: alpha and beta both rest on a limit.
C9_Witness ==
    /\ AfterTick
    /\ Vec2NonZero(did[1].input.orbit)
    /\ IsSome(pan_orbit[1].alpha_lower_limit) /\ IsSome(pan_orbit[1].beta_upper_limit)
    /\ pan_orbit[1].target_alpha = Unwrap(pan_orbit[1].alpha_lower_limit)
    /\ pan_orbit[1].target_beta = Unwrap(pan_orbit[1].beta_upper_limit)

\* C10: while allow_upside_down is false, target_beta lies within [-PI/2, PI/2] at
\* the end of every tick, whatever the input, the beta limits and the application's
\* writes.
C10_NeverUpsideDown ==
    AfterTick =>
       \A e \in Entities :
          ~pan_orbit[e].allow_upside_down =>
             /\ pan_orbit[e].target_beta >= -(PI \div 2)
             /\ pan_orbit[e].target_beta <= PI \div 2

\* An orbit drag over the top, stopped at the quarter turn.
C10_Witness ==
    /\ AfterTick
    /\ ~pan_orbit[1].allow_upside_down
    /\ did[1].input.orbit[2] > 0
    /\ pan_orbit[1].target_beta = PI \div 2

\* C11: in every tick, for every combination of mouse buttons, modifier keys and
\* touches, at most one of the orbit delta and the pan delta the camera consumes is
\* non-zero.
C11_OrbitOrPan ==
    AfterTick =>
       \A e \in Entities :
          ~(Vec2NonZero(did[e].input.orbit) /\ Vec2NonZero(did[e].input.pan))

\* A step of one of the plugin's systems: the frame is inside the chain.
InChain == stage \in {"viewport", "trackers", "camera"}

\* C12: while ActiveCameraData.manual is true, no system of the plugin modifies
\* ActiveCameraData (entity, viewport_size, window_size, manual), whatever the input
\* of the frame.
C12_ManualKept ==
    [][ (InChain /\ active_cam.manual) => active_cam' = active_cam ]_vars

\* The application has taken the resource over, the frame brings an input that would
\* select the camera under the cursor, and the selection stage has left the
\* resource as the application wrote it.
C12_Witness ==
    /\ stage = "trackers"
    /\ active_cam.manual /\ active_cam.entity = Some(2)
    /\ input_just_activated(pan_orbit[1], input)
    /\ IsSome(InputPosition(input))

\* C13: in every tick the three stages run in a fixed order: an input tracker runs
\* only after active_viewport_data has completed (the trackers stage is entered from
\* the viewport stage alone, and within the chain ActiveCameraData changes in the
\* viewport stage alone), pan_orbit_camera runs only after both trackers have
\* completed, and pan_orbit_camera leaves ActiveCameraData as it reads it.
C13_StageOrder ==
    [][ /\ (ran' # ran /\ ran' # {}) => stage = "trackers"
        /\ (stage' = "trackers" /\ stage # "trackers") => stage = "viewport"
        /\ (InChain /\ active_cam' # active_cam) => stage = "viewport"
        /\ (stage' = "camera") => (stage = "trackers" /\ ran' = {"mouse", "touch"})
        /\ Tick => (ran = {"mouse", "touch"} /\ active_cam' = active_cam) ]_vars

\* One frame in which the selection made the camera active, the mouse tracker read
\* the drag for it, and the camera consumed the drag.
C13_Witness ==
    /\ AfterTick /\ frame = 1
    /\ ran = {"mouse", "touch"}
    /\ active_cam.entity = Some(1)
    /\ Vec2NonZero(did[1].input.orbit)

\* C14: for a fixed target and a smoothness in [0, 1), lerp_and_snap_f32 applied to
\* its own result reaches exactly the target within a bounded number of applications
\* (MaxLerpSteps, which exceeds the number the exact arithmetic needs for the
\* distances tried) and stays there; with smoothness 1 every application returns its
\* input and the value never leaves the start.
C14_ReachesTarget ==
    call.fn = "lerp_and_snap_f32" =>
       /\ (call.smoothness < One /\ call.steps = MaxLerpSteps) => call.value = call.to
       /\ (call.smoothness < One /\ call.steps >= 1 /\ call.input = call.to) =>
             call.value = call.to
       /\ call.smoothness = One => (call.value = call.input /\ call.value = call.from)

\* C15: for every from, to and smoothness < 1, when the interpolated vector is
\* within 0.001 (vector length) of to, lerp_and_snap_vec3 returns exactly to, in all
\* three components; with smoothness 1 it returns from unchanged.
C15_SnapsWholeVector ==
    (call.fn = "lerp_and_snap_vec3" /\ call.steps >= 1) =>
       LET interpolated == Vec3Lerp(call.input, call.to, One - call.smoothness)
       IN  /\ ( /\ call.smoothness < One
                /\ approx_equal(Vec3Length(Vec3Sub(interpolated, call.to)), 0) )
               => call.value = call.to
           /\ call.smoothness = One => call.value = call.input

\* Two positions agree within the tolerance of the arithmetic: each component
\* differs by at most 0.05, which covers the error of the grid's sine and cosine
\* (below 0.5 % of the distance to the focus) for the distances tried.
SamePosition(a, b) ==
    \A i \in 1..3 : Abs(a[i] - b[i]) <= One \div 20

\* C16: for every camera position different from the focus, positions with negative
\* x relative to the focus included, the alpha, beta and radius that
\* calculate_from_translation_and_focus derives, applied by update_orbit_transform
\* around the same focus, reproduce the position.
C16_RoundTrip ==
    (call.fn = "round_trip" /\ call.steps = 1) =>
       SamePosition(call.value, call.translation)

\* C17: optional clamping is idempotent: for all x and all optional bounds with
\* lower <= upper, clamping the clamped value again returns it unchanged, and a
\* value already inside the bounds is returned unchanged.
C17_ClampIdempotent ==
    (call.fn = "clamp_optional" /\ Ordered(call.lo, call.hi)) =>
       /\ call.steps = 2 => call.value = call.input
       /\ (call.steps >= 1 /\ Within(call.input, call.lo, call.hi)) =>
             call.value = call.input

\* A value below both bounds, clamped twice: it rests on the lower bound.
C17_Witness ==
    /\ call.fn = "clamp_optional" /\ call.steps = 2
    /\ IsSome(call.lo) /\ IsSome(call.hi)
    /\ Unwrap(call.lo) < Unwrap(call.hi)
    /\ call.x < Unwrap(call.lo)
    /\ call.value = Unwrap(call.lo)

\* The camera as the lazy initialization leaves it: every target equals its current
\* value and the limits leave the targets as they are.
SeededOrbit(po) ==
    /\ po.alpha = Some(po.target_alpha) /\ po.beta = Some(po.target_beta)
    /\ po.radius = Some(po.target_radius)
    /\ po.target_focus = po.focus
    /\ Ordered(po.alpha_lower_limit, po.alpha_upper_limit) =>
          apply_alpha_limits(po, po.target_alpha) = po.target_alpha
    /\ Ordered(po.beta_lower_limit, po.beta_upper_limit) =>
          apply_beta_limits(po, po.target_beta) = po.target_beta
    /\ apply_zoom_limits(po, po.target_radius) = po.target_radius
\* For an orthographic projection, the target scale, the current scale and the
\* projection's scale are one value.
SeededScale(po, proj) ==
    proj.kind = "Orthographic" =>
       /\ po.scale = Some(po.target_scale)
       /\ po.target_scale = proj.scale

\* C18: immediately after the lazy initialization of an entity, every target equals
\* its current value and respects the configured limits: target_alpha = alpha,
\* target_beta = beta, target_radius = radius, target_focus = focus, and for an
\* orthographic projection target_scale = scale = the projection's scale.
C18_TargetsSeeded ==
    \A e \in Entities :
       (stage = "camera" /\ ~pan_orbit[e].initialized) =>
          LET after == LazyInit(pan_orbit[e], transform[e], projection[e])
          IN  /\ SeededOrbit(after.pan_orbit)
              /\ SeededScale(after.pan_orbit, after.projection)

\* A step does not take a current value away from its target: the distance to the
\* target, for alpha, beta, radius and each component of the focus, does not grow.
NoFurther(before, after) ==
    /\ Abs(after.target_alpha - Unwrap(after.alpha))
          <= Abs(before.target_alpha - Unwrap(before.alpha))
    /\ Abs(after.target_beta - Unwrap(after.beta))
          <= Abs(before.target_beta - Unwrap(before.beta))
    /\ Abs(after.target_radius - Unwrap(after.radius))
          <= Abs(before.target_radius - Unwrap(before.radius))
    /\ \A i \in 1..3 : Abs(after.target_focus[i] - after.focus[i])
                          <= Abs(before.target_focus[i] - before.focus[i])

\* C19: when the application sets initialized = true before the first tick, the lazy
\* initialization never runs, and the ticks that follow move the camera from its
\* starting values toward target_alpha, target_beta, target_radius and target_focus,
\* never away from them, until the targets are reached.
C19_AnimatesToTargets ==
    /\ [](\A e \in Entities : ~did[e].init)
    /\ [][ Tick => \A e \in Entities : NoFurther(pan_orbit[e], pan_orbit'[e]) ]_vars
    /\ <>(\A e \in Entities : Arrived(pan_orbit[e]))

\* The zoom target of a camera: target_scale under an orthographic projection,
\* target_radius otherwise.
ZoomTarget(po, proj) ==
    IF proj.kind = "Orthographic" THEN po.target_scale ELSE po.target_radius

\* C20: when ActiveCameraData.window_size is None, a non-zero orbit delta leaves
\* target_alpha and target_beta as the tick found them (after the lazy
\* initialization and the limits of step 4, which act whatever the input, and
\* unchanged outright when the targets are within those limits); when
\* viewport_size is None, a non-zero pan delta leaves target_focus as the tick found
\* it; and in both cases a scroll delta of the same tick still moves the zoom target,
\* by -scroll * target * 0.2, and the camera is updated.
C20_MissingSizes ==
    [][ Tick =>
          \A e \in Entities :
             LET start == LazyInit(pan_orbit[e], transform[e], projection[e]).pan_orbit
                 in == did'[e].input
                 after == pan_orbit'[e]
                 no_orbit == Vec2NonZero(in.orbit) /\ active_cam.window_size = None
                 no_pan == Vec2NonZero(in.pan) /\ active_cam.viewport_size = None
                 zoomed == IntegrateZoom(start, in.scroll_line, in.scroll_pixel,
                                         projection[e])
             IN  /\ no_orbit =>
                      /\ after.target_alpha = ApplyConstraints(start).target_alpha
                      /\ after.target_beta = ApplyConstraints(start).target_beta
                      /\ Targets(ApplyConstraints(start)) = Targets(start) =>
                            /\ after.target_alpha = start.target_alpha
                            /\ after.target_beta = start.target_beta
                 /\ no_pan => after.target_focus = start.target_focus
                 /\ ((no_orbit \/ no_pan) /\ in.scroll_line + in.scroll_pixel # 0) =>
                      /\ ZoomTarget(after, projection[e])
                            = ZoomTarget(ApplyConstraints(zoomed), projection[e])
                      /\ ZoomTarget(after, projection[e])
                            # ZoomTarget(start, projection[e])
                      /\ did'[e].has_moved /\ did'[e].update ]_vars

\* The window size is unknown, the camera has consumed an orbit drag and a scroll of
\* the wheel in one tick: the angles rest at their targets, and the radius is on its
\* way to a new target.
C20_Witness ==
    /\ AfterTick
    /\ active_cam.entity = Some(1) /\ active_cam.window_size = None
    /\ Vec2NonZero(did[1].input.orbit)
    /\ did[1].input.scroll_line # 0
    /\ projection[1].kind = "Perspective"
    /\ pan_orbit[1].alpha = Some(pan_orbit[1].target_alpha)
    /\ pan_orbit[1].beta = Some(pan_orbit[1].target_beta)
    /\ pan_orbit[1].radius # Some(pan_orbit[1].target_radius)

\* A size with no width or no height.
ZeroSize(size) == IsSome(size) /\ (Unwrap(size)[1] = 0 \/ Unwrap(size)[2] = 0)

\* C21: when the window size is zero in a dimension, a tick with a non-zero orbit
\* delta leaves target_alpha and target_beta as the tick found them (after the lazy
\* initialization and the limits of step 4); when the viewport size is zero in a
\* dimension, a tick with a non-zero pan delta leaves target_focus as the tick found
\* it; and every target stays finite.
C21_ZeroSizeSkipped ==
    [][ Tick =>
          \A e \in Entities :
             LET start == LazyInit(pan_orbit[e], transform[e], projection[e]).pan_orbit
                 in == did'[e].input
                 after == pan_orbit'[e]
             IN  /\ (Vec2NonZero(in.orbit) /\ ZeroSize(active_cam.window_size)) =>
                      /\ after.target_alpha = ApplyConstraints(start).target_alpha
                      /\ after.target_beta = ApplyConstraints(start).target_beta
                      /\ IsFinite(after.target_alpha) /\ IsFinite(after.target_beta)
                 /\ (Vec2NonZero(in.pan) /\ ZeroSize(active_cam.viewport_size)) =>
                      /\ after.target_focus = start.target_focus
                      /\ \A i \in 1..3 : IsFinite(after.target_focus[i]) ]_vars

\* C22: zoom is multiplicative in the current target.  A tick whose scroll amounts
\* are line and pixel (the tracker's amounts times zoom_sensitivity, negated when
\* reversed_zoom is set) takes the zoom target from T, its value when the tick
\* reads it, to apply_zoom_limits(T - (line + pixel) * T * 0.2), up to the rounding
\* of the arithmetic.
C22_ZoomMultiplicative ==
    [][ Tick =>
          \A e \in Entities :
             LET start == LazyInit(pan_orbit[e], transform[e], projection[e]).pan_orbit
                 in == did'[e].input
                 T == ZoomTarget(start, projection[e])
                 direction == IF start.reversed_zoom THEN -1 ELSE 1
                 moved == T - Mul(Mul(in.scroll_line + in.scroll_pixel, T), One \div 5)
             IN  /\ InputLive(e, start, active_cam) =>
                      /\ in.scroll_line
                            = direction * Mul(camera_movement.scroll_line,
                                              start.zoom_sensitivity)
                      /\ in.scroll_pixel
                            = direction * Mul(camera_movement.scroll_pixel,
                                              start.zoom_sensitivity)
                 /\ Abs(ZoomTarget(pan_orbit'[e], projection[e])
                          - apply_zoom_limits(start, moved)) < EPSILON ]_vars

\* Two notches of the wheel in two ticks, from a radius of 5 and without limits:
\* the first takes the target to 4, the second to 3.2.
C22_Witness ==
    /\ AfterTick /\ frame = 2
    /\ projection[1].kind = "Perspective"
    /\ pan_orbit[1].zoom_lower_limit = None
    /\ pan_orbit[1].zoom_sensitivity = One /\ ~pan_orbit[1].reversed_zoom
    /\ did[1].input.scroll_line = One /\ did[1].input.scroll_pixel = 0
    /\ pan_orbit[1].target_radius = (16 * One) \div 5

\* A gesture that moves the camera: one of the deltas of calculate_movement is not
\* zero.
Moves(movement) ==
    \/ Vec2NonZero(movement.orbit) \/ Vec2NonZero(movement.pan)
    \/ movement.roll_angle # 0 \/ movement.zoom_pixel # 0

\* C23: every non-zero touch delta that pan_orbit_camera consumes in a tick is
\* computed from the touches of that tick and of the tick before it: the tracker's
\* current pair is the touches pressed in this frame and its previous pair is the
\* touches pressed in the previous frame.
C23_ConsecutiveSnapshots ==
    AfterTick =>
       \A e \in Entities :
          ( /\ InputLive(e, pan_orbit[e], active_cam)
            /\ pan_orbit[e].touch_enabled
            /\ Moves(calculate_movement(touch_tracker)) )
          => /\ touch_tracker.curr_pressed = input.touches
             /\ touch_tracker.prev_pressed = input.touches_previous

\* C24: each mouse-motion or scroll event contributes to the deltas of the tick in
\* which it arrives and of no other tick: the mouse deltas a camera consumes in a
\* tick are zero or the sums over the events that arrived in this frame (times the
\* camera's sensitivity and zoom direction), whatever the events of earlier frames
\* were and whether or not a camera was active when they arrived.  (The frames
\* bring no touches, so the deltas consumed are the mouse's.)
C24_EventsOfThisTick ==
    [][ Tick =>
          \A e \in Entities :
             LET in == did'[e].input
                 po == pan_orbit'[e]
                 motion == SumMotion(input.motion_arrived)
                 wheel == SumWheel(input.wheel_arrived)
                 direction == IF po.reversed_zoom THEN -1 ELSE 1
             IN  /\ in.orbit \in {Vec2Zero, Vec2Scale(motion, po.orbit_sensitivity)}
                 /\ in.pan \in {Vec2Zero, Vec2Scale(motion, po.pan_sensitivity)}
                 /\ in.scroll_line \in {0, direction * Mul(wheel[1], po.zoom_sensitivity)}
                 /\ in.scroll_pixel \in {0, direction * Mul(wheel[2], po.zoom_sensitivity)} ]_vars

\* A point lies inside or on the shape centred at origin: within the half sizes of
\* a cuboid, and within the radius of a sphere (up to the rounding of the length).
InsideShape(point, origin, shape) ==
    LET v == Vec3Sub(point, origin)
    IN  IF shape.kind = "Cuboid"
        THEN \A i \in 1..3 : Abs(v[i]) <= shape.half_size[i]
        ELSE Vec3Length(v) <= shape.radius + EPSILON
\* Points of the shape to compare distances with: the centre, and the corners, the
\* middles of the edges and of the faces of the cuboid, or the poles of the sphere.
ProbePoints(origin, shape) ==
    IF shape.kind = "Cuboid"
    THEN { Vec3Add(origin, << i * shape.half_size[1], j * shape.half_size[2],
                              k * shape.half_size[3] >>) :
             i \in {-1, 0, 1}, j \in {-1, 0, 1}, k \in {-1, 0, 1} }
    ELSE { Vec3Add(origin, Vec3Scale(d, shape.radius)) :
             d \in { Vec3Zero, <<One, 0, 0>>, <<-One, 0, 0>>, <<0, One, 0>>,
                      <<0, -One, 0>>, <<0, 0, One>>, <<0, 0, -One>> } }
Distance(a, b) == Vec3Length(Vec3Sub(a, b))

\* The target_focus of a tick before the bounds are applied: the tick's starting
\* value moved by the pan the tick consumed.
PannedFocus(e) ==
    LET init == LazyInit(pan_orbit[e], transform[e], projection[e])
    IN  IntegratePan(init.pan_orbit, did'[e].input.pan, active_cam, init.transform,
                     init.projection).target_focus

\* C25: when a focus bounding shape is configured, target_focus lies inside or on
\* the shape, centred at the bounds origin, at the end of every tick, for any pan
\* and any write of target_focus: a target_focus inside the shape is kept, and one
\* outside it is replaced by a point of the shape that no other point of the shape
\* is closer to it than.
C25_FocusInsideBounds ==
    [][ Tick =>
          \A e \in Entities :
             IsSome(pan_orbit[e].focus_bounds_shape) =>
                LET shape == Unwrap(pan_orbit[e].focus_bounds_shape)
                    origin == pan_orbit[e].focus_bounds_origin
                    wanted == PannedFocus(e)
                    kept == pan_orbit'[e].target_focus
                IN  /\ InsideShape(kept, origin, shape)
                    /\ InsideShape(wanted, origin, shape) =>
                          Distance(kept, wanted) < EPSILON
                    /\ \A q \in ProbePoints(origin, shape) :
                          Distance(kept, wanted) <= Distance(q, wanted) + EPSILON ]_vars

\* The focus is bounded to a unit cuboid at the origin and the application has set
\* target_focus to (5, 5, 5): the tick leaves it at (0.5, 0.5, 0.5).
C25_Witness ==
    /\ AfterTick
    /\ input.mouse_motion = <<>>
    /\ pan_orbit[1].focus_bounds_shape = Some(Cuboid(One, One, One))
    /\ pan_orbit[1].focus_bounds_origin = Vec3Zero
    /\ pan_orbit[1].target_focus = <<Half, Half, Half>>

\* The roll is disabled on a camera: no roll key and no touch roll.
RollDisabled(po) ==
    /\ po.key_roll_left = None /\ po.key_roll_right = None
    /\ ~po.touch_roll_enabled

\* C26: rolling is disabled by default.  While key_roll_left and key_roll_right
\* are None and touch_roll_enabled is false, the roll angle of every tick is zero
\* and the tick leaves base_transform as it was, whatever keys are held, however
\* the mouse moves and however the fingers turn.
C26_RollDisabledByDefault ==
    [][ Tick =>
          \A e \in Entities :
             RollDisabled(pan_orbit[e]) =>
                /\ did'[e].input.roll_angle = 0
                /\ pan_orbit'[e].base_transform = pan_orbit[e].base_transform ]_vars

\* A camera with the default roll settings has consumed the pan of two fingers that
\* turned about each other while a roll key of other cameras was held, and its base
\* transform is the identity.
C26_Witness ==
    /\ AfterTick
    /\ RollDisabled(pan_orbit[1]) /\ RollDisabled(DefaultCamera)
    /\ "KeyQ" \in input.keys.pressed
    /\ calculate_movement(touch_tracker).roll_angle # 0
    /\ did[1].input.pan # Vec2Zero
    /\ pan_orbit[1].base_transform = DefaultCamera.base_transform

\* The systems of the set run in this frame: the scheduler passes from the run
\* condition to the first system of the chain.
SetStarts == stage = "set" /\ stage' = "viewport"
\* The systems of the set are skipped in this frame.
SetSkipped == stage = "set" /\ stage' = "end"
\* egui wants focus in the frame under way, and wanted it in the frame before.
WantsNow == egui_wants_focus(egui.contexts, egui.include_hover)
WantedBefore == egui_wants_focus(egui.contexts_previous, egui.include_hover)

\* C27: with the egui integration, the camera systems run in a tick only if egui
\* wanted focus neither in that tick nor in the tick before.  prev always equals
\* the curr of the tick before, so once egui stops wanting focus the camera stays
\* suppressed for exactly one further tick (it is skipped in the first tick without
\* focus and runs in the second), and in no tick does egui want focus while the
\* camera systems run.
C27_EguiSuppression ==
    [][ /\ (stage = "egui" /\ stage' = "set") =>
             /\ egui'.wants_focus.prev = egui.wants_focus.curr
             /\ egui'.wants_focus.curr =
                  egui_wants_focus(egui'.contexts, egui.include_hover)
        /\ stage = "set" =>
             /\ SetStarts \/ SetSkipped
             /\ SetStarts <=> (~WantsNow /\ ~WantedBefore)
             /\ (WantedBefore /\ ~WantsNow) => SetSkipped
        /\ (stage' \in {"viewport", "trackers", "camera"} \/ Tick) =>
             /\ ~WantsNow' /\ ~WantedBefore'
             /\ egui'.wants_focus = [prev |-> FALSE, curr |-> FALSE] ]_vars

\* egui wanted focus in the first frame and not since: the camera was skipped in
\* the first two frames, and in the third it has had its first tick (the lazy
\* initialization) and has consumed the drag of that frame.
C27_Witness ==
    /\ AfterTick
    /\ frame = 3
    /\ ~WantsNow /\ ~WantedBefore
    /\ did[1].init
    /\ did[1].input.orbit # Vec2Zero

\* C28: for the active enabled camera with a window of (w, h), w and h positive,
\* an orbit delta (dx, dy), already scaled by orbit_sensitivity, changes
\* target_alpha by -dx / w * 2 PI when is_upside_down is false and by
\* +dx / w * 2 PI when it is true, and target_beta by +dy / h * PI; the limits
\* of step 4 are applied to the targets so changed.
C28_OrbitDelta ==
    [][ Tick =>
          \A e \in Entities :
             LET start == LazyInit(pan_orbit[e], transform[e], projection[e]).pan_orbit
                 after == pan_orbit'[e]
                 dx == did'[e].input.orbit[1]
                 dy == did'[e].input.orbit[2]
                 w == Unwrap(active_cam.window_size)[1]
                 h == Unwrap(active_cam.window_size)[2]
                 yaw == RoundDiv(dx * TAU, w)
                 pitch == RoundDiv(dy * PI, h)
                 turned == [start EXCEPT
                              !.target_alpha = IF after.is_upside_down
                                               THEN @ + yaw ELSE @ - yaw,
                              !.target_beta = @ + pitch]
             IN  ( /\ InputLive(e, pan_orbit[e], active_cam)
                   /\ IsSome(active_cam.window_size)
                   /\ w > 0 /\ h > 0
                   /\ Vec2NonZero(did'[e].input.orbit) )
                 => /\ after.target_alpha = ApplyConstraints(turned).target_alpha
                    /\ after.target_beta = ApplyConstraints(turned).target_beta ]_vars

\* A drag of (100, 0) in a window of 800 by 600, at sensitivity 1 and the right way
\* up, with no limit on alpha: the yaw target is 100 / 800 * 2 PI = 0.785 below
\* where it started.
C28_Witness ==
    /\ AfterTick
    /\ frame = 1
    /\ active_cam.window_size = Some(<<800, 600>>)
    /\ did[1].input.orbit = <<100, 0>>
    /\ ~pan_orbit[1].is_upside_down
    /\ pan_orbit[1].alpha_upper_limit = None
    /\ Abs(pan_orbit[1].target_alpha
             - (LazyInit(DefaultCamera, [rotation |-> QuatIdentity,
                                         translation |-> StartTranslation],
                         PerspectiveProjection).pan_orbit.target_alpha
                - RoundDiv(785 * One, 1000))) < EPSILON

\* The camera is upside down and has consumed a drag to the right: the yaw target
\* is above where it started.
UpsideDownDragReached ==
    /\ AfterTick
    /\ frame = 1
    /\ pan_orbit[1].is_upside_down
    /\ did[1].input.orbit[1] > 0
    /\ pan_orbit[1].alpha_upper_limit = None
    /\ pan_orbit[1].target_alpha > 0

\* C29: once the input has stopped (no delta is consumed, the application writes
\* nothing, the targets stay as they are), a camera whose smoothness values are all
\* below 1 reaches, within finitely many ticks, alpha, beta, radius and all three
\* components of focus equal to their targets, and from then on every tick is idle:
\* it updates nothing.
C29_ComesToRest ==
    <>[](\A e \in Entities :
           /\ Arrived(pan_orbit[e])
           /\ AfterTick => ~did[e].update)

\* Both the orbit predicate and the pan predicate hold for a camera in this frame.
BothPressed(po) ==
    /\ orbit_pressed(po, input.mouse, input.keys)
    /\ pan_pressed(po, input.mouse, input.keys)

\* C30: when the orbit predicate and the pan predicate both hold in a tick (both
\* modifiers unset and both buttons held), the tracker assigns the mouse motion of
\* that tick to orbit alone and leaves the mouse pan delta zero, in every such
\* tick.
C30_OrbitWinsOverPan ==
    ( /\ "mouse" \in ran
      /\ IsSome(active_cam.entity)
      /\ Unwrap(active_cam.entity) \in Entities
      /\ BothPressed(pan_orbit[Unwrap(active_cam.entity)]) )
    => /\ camera_movement.orbit = SumMotion(input.mouse_motion)
       /\ camera_movement.pan = Vec2Zero

\* Both buttons are held with no modifier configured, the mouse has moved, and the
\* camera has consumed the motion as an orbit and no pan.
C30_Witness ==
    /\ AfterTick
    /\ active_cam.entity = Some(1)
    /\ BothPressed(pan_orbit[1])
    /\ input.mouse.pressed = {"Left", "Right"}
    /\ SumMotion(input.mouse_motion) # Vec2Zero
    /\ did[1].input.orbit = SumMotion(input.mouse_motion)
    /\ did[1].input.pan = Vec2Zero

\* The tick of an entity as it would be without the scroll of the frame: the same
\* pass over the same components, the tracker's scroll amounts being zero.
TickWithoutScroll(e) ==
    CameraTick(e, pan_orbit[e], transform[e], projection[e], active_cam,
               [camera_movement EXCEPT !.scroll_line = 0, !.scroll_pixel = 0],
               touch_tracker).pan_orbit

\* C31: the projection kind selects the zoom pair that a scroll changes.  A tick
\* with scroll under an orthographic projection moves target_scale (unless a zoom
\* limit holds it where it is) and leaves target_radius and radius as the same tick
\* without the scroll leaves them; under a perspective projection it moves
\* target_radius (unless a limit holds it) and leaves target_scale and scale as the
\* tick without the scroll leaves them.
C31_ProjectionSelectsZoomPair ==
    [][ Tick =>
          \A e \in Entities :
             LET in == did'[e].input
                 after == pan_orbit'[e]
                 quiet == TickWithoutScroll(e)
             IN  (in.scroll_line + in.scroll_pixel # 0 /\ in.pan = Vec2Zero) =>
                    IF projection[e].kind = "Orthographic"
                    THEN /\ after.target_radius = quiet.target_radius
                         /\ after.radius = quiet.radius
                         /\ after.target_scale # quiet.target_scale
                            \/ after.target_scale
                                 = apply_zoom_limits(after, after.target_scale - 1)
                            \/ after.target_scale
                                 = apply_zoom_limits(after, after.target_scale + 1)
                    ELSE /\ after.target_scale = quiet.target_scale
                         /\ after.scale = quiet.scale
                         /\ after.target_radius # quiet.target_radius
                            \/ after.target_radius
                                 = apply_zoom_limits(after, after.target_radius - 1)
                            \/ after.target_radius
                                 = apply_zoom_limits(after, after.target_radius + 1) ]_vars

\* Under an orthographic projection a notch of the wheel has moved target_scale
\* from 1 to 0.8 and the radius pair is where it was, at 5.
C31_Witness ==
    /\ AfterTick /\ frame = 1
    /\ projection[1].kind = "Orthographic"
    /\ did[1].input.scroll_line = One /\ did[1].input.scroll_pixel = 0
    /\ pan_orbit[1].zoom_lower_limit = None
    /\ pan_orbit[1].target_scale = (4 * One) \div 5
    /\ pan_orbit[1].target_radius = 5 * One
    /\ pan_orbit[1].radius = Some(5 * One)

\* The current zoom value of a camera: scale under an orthographic projection,
\* radius otherwise.
ZoomValue(po, proj) ==
    IF proj.kind = "Orthographic" THEN po.scale ELSE po.radius

\* The current zoom value ends the tick at its target after a scroll of pixels
\* alone, whatever the smoothness; after a scroll of lines alone it is what the
\* smoothing makes of the value before the tick, and nothing else has moved it.
PixelScrollUnsmoothed(before, e) ==
    LET in == did'[e].input
        after == pan_orbit'[e]
    IN  /\ ( /\ in.scroll_pixel # 0 /\ in.scroll_line = 0
             /\ ZoomValue(before, projection[e])
                  = Some(ZoomTarget(before, projection[e])) )
           => ZoomValue(after, projection[e]) = Some(ZoomTarget(after, projection[e]))
        /\ ( /\ in.scroll_line # 0 /\ in.scroll_pixel = 0
             /\ IsSome(ZoomValue(before, projection[e])) )
           => ZoomValue(after, projection[e])
                = Some(lerp_and_snap_f32(Unwrap(ZoomValue(before, projection[e])),
                                         ZoomTarget(after, projection[e]),
                                         before.zoom_smoothness))

\* C32: zoom_smoothness does not apply to pixel-based scroll.  If the current zoom
\* value equals its target when a tick whose only input is a scroll of pixels starts
\* its zoom step (after the lazy initialization, in a first tick), the current value
\* equals the new target at the end of the tick, for every zoom_smoothness from 0 to
\* 1; a tick whose only input is a scroll of lines changes the current value through
\* the smoothing alone.
C32_PixelScrollNotSmoothed ==
    [][ Tick =>
          \A e \in Entities :
             PixelScrollUnsmoothed(
                LazyInit(pan_orbit[e], transform[e], projection[e]).pan_orbit, e) ]_vars

\* C33: under a perspective projection a scale that is None before a tick is None
\* after it, so a perspective camera whose scale starts as None keeps it None.
C33_PerspectiveScaleStaysNone ==
    [][ Tick =>
          \A e \in Entities :
             (projection[e].kind = "Perspective" /\ pan_orbit[e].scale = None)
                => pan_orbit'[e].scale = None ]_vars

\* C34: three or more touches are not supported: in every tick in which three or
\* more touches are pressed, the touch tracker yields no gesture (zero orbit, pan,
\* zoom and roll) to the camera that takes the touch input, whatever the gesture of
\* the ticks before was.
C34_ThreeTouchesNoGesture ==
    AfterTick =>
       \A e \in Entities :
          ( /\ InputLive(e, pan_orbit[e], active_cam)
            /\ pan_orbit[e].touch_enabled
            /\ Len(input.touches) >= 3 )
          => ~Moves(calculate_movement(touch_tracker))

\* The camera e takes the touch input of this tick, and this tick and the one
\* before it have at most two touches pressed.
TouchTick(e) ==
    /\ InputLive(e, pan_orbit[e], active_cam)
    /\ pan_orbit[e].touch_enabled
    /\ Len(input.touches) <= 2 /\ Len(input.touches_previous) <= 2

\* C35: when the number of pressed touches changes between 0, 1 and 2 from one
\* tick to the next, the tracker yields no gesture (all touch deltas zero) in the
\* tick of the change.
C35_NoGestureWhenCountChanges ==
    AfterTick =>
       \A e \in Entities :
          (TouchTick(e) /\ Len(input.touches) # Len(input.touches_previous))
             => ~Moves(calculate_movement(touch_tracker))

\* The other half of the rule: in a tick in which the count is the one of the tick
\* before, the tracker holds two snapshots of that many touches, so that
\* calculate_movement takes the arm of their gesture.
GestureResumesWhenCountSteady ==
    AfterTick =>
       \A e \in Entities :
          (TouchTick(e) /\ Len(input.touches) = Len(input.touches_previous))
             => /\ Len(touch_tracker.curr_pressed) = Len(input.touches)
                /\ Len(touch_tracker.prev_pressed) = Len(input.touches)

(***************************************************************************)
(* SpecViewports: two cameras that render to the primary window, the first *)
(* to its left half and the second to a corner of that half, with every     *)
(* pair of orders from -2 to 1; the button is pressed with the cursor over  *)
(* both viewports, over the first alone, and over neither.                  *)
(***************************************************************************)

LeftHalfCamera(order) ==
    [ order |-> order, target |-> "Window",
      viewport_rect |-> Some([min |-> <<0, 0>>, max |-> <<400, 600>>]) ]
CornerCamera(order) ==
    [ order |-> order, target |-> "Window",
      viewport_rect |-> Some([min |-> <<0, 0>>, max |-> <<300, 200>>]) ]

CameraOrders == {-2, -1, 0, 1}

CursorPositions == { <<100, 100>>, <<350, 300>>, <<600, 300>> }

ViewportEvents ==
    { [ EventOf(b, {}, m, <<>>, NoWrite) EXCEPT !.cursor = Some(c) ] :
        b \in SUBSET {"Left"}, m \in {<<>>, << <<200, 400>> >>},
        c \in CursorPositions }

InitViewports ==
    \E o1 \in CameraOrders, o2 \in CameraOrders :
       InitWith([e \in {1, 2} |->
                   [ SetupOf(WithSmoothness(DefaultCamera, 0), PerspectiveProjection)
                       EXCEPT !.camera = IF e = 1 THEN LeftHalfCamera(o1)
                                                  ELSE CornerCamera(o2) ]])

FrameViewports == Env(ViewportEvents, TRUE)

NextViewports ==
    \/ FrameViewports
    \/ ActiveViewportData
    \/ MouseKeyTracker
    \/ TouchTracker
    \/ PanOrbitCamera

SpecViewports == InitViewports /\ [][NextViewports]_vars

\* The window cameras whose viewport holds the input position.
CamerasUnderCursor ==
    { e \in Entities :
        /\ camera[e].target = "Window"
        /\ IsSome(camera[e].viewport_rect)
        /\ IsSome(InputPosition(input))
        /\ LET pos == Unwrap(InputPosition(input))
               rect == Unwrap(camera[e].viewport_rect)
           IN  /\ pos[1] > rect.min[1] /\ pos[1] < rect.max[1]
               /\ pos[2] > rect.min[2] /\ pos[2] < rect.max[2] }

\* C36: when input is newly activated with the cursor inside the viewports of
\* several window cameras, a camera with the highest order among them becomes
\* ActiveCameraData.entity, whatever the orders are (negative ones included); when
\* the cursor lies in no viewport, the entity becomes None.
C36_HighestOrderUnderCursor ==
    [][ ( /\ stage = "viewport" /\ stage' = "trackers"
          /\ ~active_cam.manual
          /\ \A e \in Entities : input_just_activated(pan_orbit[e], input) )
        => IF CamerasUnderCursor = {}
           THEN active_cam'.entity = None
           ELSE /\ IsSome(active_cam'.entity)
                /\ Unwrap(active_cam'.entity) \in CamerasUnderCursor
                /\ \A e \in CamerasUnderCursor :
                      camera[e].order <= camera[Unwrap(active_cam'.entity)].order ]_vars

\* The limits of a camera are ordered and its smoothness values lie in [0, 1].
WellConfigured(po) ==
    /\ Ordered(po.alpha_lower_limit, po.alpha_upper_limit)
    /\ Ordered(po.beta_lower_limit, po.beta_upper_limit)
    /\ Ordered(po.zoom_lower_limit, po.zoom_upper_limit)
    /\ \A sm \in {po.orbit_smoothness, po.pan_smoothness, po.zoom_smoothness} :
          sm >= 0 /\ sm <= One

\* The current alpha, beta and radius are set and lie within the limits.
CurrentWithinLimits(po) ==
    /\ IsSome(po.alpha) /\ IsSome(po.beta) /\ IsSome(po.radius)
    /\ Within(Unwrap(po.alpha), po.alpha_lower_limit, po.alpha_upper_limit)
    /\ Within(Unwrap(po.beta), po.beta_lower_limit, po.beta_upper_limit)
    /\ Within(Unwrap(po.radius), po.zoom_lower_limit, po.zoom_upper_limit)

\* The current radius is set and at least the floor 0.05.
RadiusAboveFloor(po) == IsSome(po.radius) /\ Unwrap(po.radius) >= ZoomFloor

\* The camera enters the tick uninitialized, or with current values that the plugin
\* has left within the limits and above the floor.
EntersWithinLimits(po) ==
    po.initialized => (CurrentWithinLimits(po) /\ RadiusAboveFloor(po))

LimitsAttainable(po) ==
    /\ po.allow_upside_down
         \/ /\ IsSome(po.beta_lower_limit) => Unwrap(po.beta_lower_limit) <= PI \div 2
            /\ IsSome(po.beta_upper_limit) => Unwrap(po.beta_upper_limit) >= -(PI \div 2)
    /\ IsSome(po.zoom_upper_limit) => Unwrap(po.zoom_upper_limit) >= ZoomFloor

C38_RadiusNeverZero ==
    (call.fn = "calculate_from_translation_and_focus" /\ call.steps = 1)
       => /\ call.value[3] > 0
          /\ IF call.translation = call.focus
             THEN call.value = <<0, 0, ZoomFloor>>
             ELSE call.value[3] = Vec3Length(Vec3Sub(call.translation, call.focus))

\* The conversion of a position that is the focus, away from the origin.
C38_Witness ==
    /\ call.fn = "calculate_from_translation_and_focus" /\ call.steps = 1
    /\ call.translation = call.focus /\ call.focus # Vec3Zero
    /\ call.value = <<0, 0, ZoomFloor>>

====
